---- MODULE Spec2Model ----
(***************************************************************************)
(* bq-cost-monitor: the cost attribution query (src/queries/cost_query.sql,*)
(* third statement, lines 565-1010), the Dataform daily summary view and   *)
(* the totals of monitorProject (src/scripts/run_monitor.js); the runs of   *)
(* runCostMonitoring and of the Cloud Function monitorCosts over the       *)
(* configured projects; the user cost chart and the cache hit chart of the *)
(* dashboard.  Spec follows the query over the JOBS view, SpecRun one run  *)
(* of the monitor, SpecDashboard the charts over one loaded cost file,     *)
(* SpecPackage the create calls of the Dataform package in one             *)
(* compilation, SpecServer the cost files and GET /api/costs/:projectId,   *)
(* SpecPage the selection of projects and the chart handles of the page.   *)
(*                                                                         *)
(* Units.  Byte counts are counted in GiB (2^30 bytes), so that POWER(1024,*)
(* 4) bytes are TebiUnits = 1024 units.  A FLOAT64 share x / N is kept as  *)
(* the exact numerator over the common denominator ShareDen (real          *)
(* arithmetic; the rounding error of FLOAT64 is not modelled).  A *_usd    *)
(* value, which the SQL rounds to 2 decimals, is kept in cents; a          *)
(* percentage rounded to 2 decimals is kept in hundredths of a percent.    *)
(* A nullable value is a sequence of length 0 (NULL) or 1.                 *)
(***************************************************************************)
EXTENDS Integers, Sequences, FiniteSets, Bags, TLC

(***************************************************************************)
(* Bounds of the model and constants of the program                        *)
(***************************************************************************)
MaxJobs == 2                     \* submissions to INFORMATION_SCHEMA.JOBS
TableLimit == 100                \* LIMIT 100 of user_table_costs
QueryLimit == 100                \* LIMIT 100 of user_recent_queries
DatasetLimit == 10                \* "Show top 10 datasets" of the dashboard; the SQL has no LIMIT
TebiUnits == 1024                \* POWER(1024, 4) bytes, in GiB
DefaultCostPerTB == 500          \* DEFAULT_COST_PER_TB = 5.0 USD, in cents
DefaultHistoryDays == 30         \* DEFAULT_HISTORY_DAYS without HISTORY_DAYS
SecondsPerHour == 60 * 60
SecondsPerDay == 24 * SecondsPerHour
MsPerHour == 1000 * 3600         \* "/ 1000 / 3600" of slot_hours

WideLen == TableLimit + 1        \* tables referenced by the widest query
WideDatasets == DatasetLimit + 1
BurstLen == QueryLimit + 1       \* queries of one scheduled burst
ShareDen == 2 * 3 * WideLen      \* divisible by every ARRAY_LENGTH that occurs

NULL == << >>
Some(v) == << v >>
IsNull(x) == x = << >>

(***************************************************************************)
(* Generic helpers                                                         *)
(***************************************************************************)
Range(s) == { s[i] : i \in 1..Len(s) }

Min(a, b) == IF a <= b THEN a ELSE b

\* SUM of the values f[x] >= 0 over the rows x of S
SumOver(f, S) == BagCardinality([x \in { y \in S : f[y] > 0 } |-> f[x]])

\* the sum of a sequence of numbers >= 0
SumSeq(s) == BagCardinality([i \in { k \in DOMAIN s : s[k] > 0 } |-> s[i]])

\* ROUND(a / b, 0) of BigQuery for a >= 0, b > 0: halfway cases away from zero
RoundDiv(a, b) == (a \div b) + (IF 2 * (a % b) >= b THEN 1 ELSE 0)

\* the rows of S as a sequence, by their distinct numbers id[x] in lo..hi
RECURSIVE EnumBy(_, _, _, _)
EnumBy(S, id, lo, hi) ==
  IF S = {} THEN << >>
  ELSE IF lo >= hi THEN << CHOOSE x \in S : TRUE >>
  ELSE LET mid == (lo + hi) \div 2
       IN  EnumBy({ x \in S : id[x] <= mid }, id, lo, mid)
             \o EnumBy({ x \in S : id[x] > mid }, id, mid + 1, hi)

RankBound == 2 * (WideLen + BurstLen + MaxJobs)

\* ORDER BY key DESC over the rows S; rows of equal key are ordered by the
\* injective rank, which stands for the order the engine happens to pick
OrderByDesc(S, key, rank) ==
  SortSeq(EnumBy(S, rank, 0 - RankBound, RankBound),
          LAMBDA a, b : \/ key[a] > key[b]
                        \/ key[a] = key[b] /\ rank[a] < rank[b])

\* ARRAY_AGG(... LIMIT n)
Limit(s, n) == SubSeq(s, 1, Min(Len(s), n))

(***************************************************************************)
(* Tables, actors and the submitted jobs (the environment)                 *)
(***************************************************************************)
MonitoredProject == "analytics-prod"
OtherProject == "analytics-dev"

\* the i-th table of the monitored project; WideDatasets datasets in turn
W(i) == [project_id |-> MonitoredProject,
         dataset_id |-> ((i - 1) % WideDatasets) + 1,
         table_id   |-> i]

TableA  == W(1)
TableB  == W(2)
TableA2 == W(1 + WideDatasets)                 \* same dataset as TableA
TableX  == [project_id |-> OtherProject,       \* TableA's name in another project
            dataset_id |-> TableA.dataset_id,
            table_id   |-> TableA.table_id]
WideTables == [i \in 1..WideLen |-> W(i)]

Alice == << "alice", "@example.com" >>
Etl   == << "etl@proj.iam", ".gserviceaccount.com" >>
Emails == { Alice, Etl }

TimeChoices == { 0, SecondsPerDay + SecondsPerHour }

\* what a submitted job looks like apart from who ran it and when
Shape(stype, processed, billed, slot, err, hit, dest, refs) ==
  [statement_type        |-> stype,
   total_bytes_processed |-> processed,
   total_bytes_billed    |-> billed,
   total_slot_ms         |-> slot,
   error_result          |-> err,
   cache_hit             |-> hit,
   destination_table     |-> dest,
   referenced_tables     |-> refs]

\* FailedShape is a job that failed before it ran: the view holds NULL in its
\* byte columns, which SUM passes over; the model keeps them as 0
CachedShape == Shape("SELECT", 0, 0, 0, NULL, TRUE, NULL, << >>)
FailedShape == Shape("SELECT", 0, 0, 0, Some("invalidQuery"), FALSE, NULL, << >>)
MergeShape  == Shape("MERGE", 1000, TebiUnits, 7200000, NULL, FALSE,
                     Some(TableA), << TableA, TableB >>)
JoinShape   == Shape("SELECT", 3, 4, 1000, NULL, FALSE,
                     NULL, << TableA, TableA2, TableB >>)
CopyShape   == Shape("CREATE_TABLE_AS_SELECT", 512, 512, 1000, NULL, FALSE,
                     Some(TableX), << TableA >>)
LoadShape   == Shape("INSERT", 1, 1, 1000, NULL, FALSE,
                     Some(TableA), << TableB >>)
ScriptShape == Shape("SCRIPT", 4, 4, 1000, NULL, FALSE, NULL, << TableA >>)
HalfShape   == Shape("SELECT", TebiUnits \div 2, TebiUnits \div 2, 1000, NULL, FALSE,
                     NULL, << TableA >>)
ScanShape   == Shape("SELECT", 1, 1, 1000, NULL, FALSE, NULL, << TableA >>)
WideShape   == Shape("SELECT", TebiUnits, TebiUnits, 1000, NULL, FALSE,
                     NULL, WideTables)

ShapeList == << CachedShape, FailedShape, MergeShape, JoinShape, CopyShape,
               LoadShape, ScriptShape >>
Shapes == Range(ShapeList)

NewJob(id, email, t, shape) ==
  [job_id                |-> id,
   project_id            |-> MonitoredProject,
   user_email            |-> email,
   creation_time         |-> t,
   job_type              |-> "QUERY",
   statement_type        |-> shape.statement_type,
   total_bytes_processed |-> shape.total_bytes_processed,
   total_bytes_billed    |-> shape.total_bytes_billed,
   total_slot_ms         |-> shape.total_slot_ms,
   error_result          |-> shape.error_result,
   cache_hit             |-> shape.cache_hit,
   destination_table     |-> shape.destination_table,
   referenced_tables     |-> shape.referenced_tables]


(***************************************************************************)
(* cost_query.sql: job_stats                                               *)
(***************************************************************************)
\* user_email LIKE '%.gserviceaccount.com' / LIKE 'service-%'
EndsWith(email, suffix) == Len(email) > 0 /\ email[Len(email)] = suffix
StartsWith(email, prefix) == Len(email) > 0 /\ email[1] = prefix

\* variant: only the domain suffix makes a service account
ServiceAccountSuffixOnly(email) ==
  IF EndsWith(email, ".gserviceaccount.com") THEN Some(email) ELSE NULL

ServiceAccount(email) ==
  IF EndsWith(email, ".gserviceaccount.com") THEN Some(email)
  ELSE IF StartsWith(email, "service-") THEN Some(email)
  ELSE NULL

\* FORMAT_TIMESTAMP('%Y-%m-%d', creation_time), as the number of the day
DateOf(t) == t \div SecondsPerDay
\* EXTRACT(HOUR FROM creation_time)
HourOfDay(t) == (t % SecondsPerDay) \div SecondsPerHour
\* EXTRACT(DAYOFWEEK FROM creation_time): 1 = Sunday; day 0 is a Sunday
DayOfWeek(t) == (DateOf(t) % 7) + 1

\* ARRAY(SELECT DISTINCT CONCAT(project_id, '.', dataset_id) ...)
DatasetName(project, dataset) == << project, dataset >>
ReferencedDatasets(j) ==
  { DatasetName(ref.project_id, ref.dataset_id) : ref \in Range(j.referenced_tables) }

\* ARRAY(SELECT AS STRUCT ... full_table_name ...): the JOBS view has no
\* reference with a NULL component, so that the WHERE keeps every entry
ReferencedTablesDetail(j) == j.referenced_tables

IsTableRebuild(j) ==
  /\ ~IsNull(j.destination_table)
  /\ Cardinality({ i \in 1..Len(j.referenced_tables) :
        /\ j.referenced_tables[i].table_id = j.destination_table[1].table_id
        /\ j.referenced_tables[i].dataset_id = j.destination_table[1].dataset_id }) > 0

\* CURRENT_TIMESTAMP() of the run that the state machine follows: the day
\* after the last job
RunTime == 2 * SecondsPerDay

\* FROM `region-us`.INFORMATION_SCHEMA.JOBS
\* WHERE creation_time >= TIMESTAMP_SUB(CURRENT_TIMESTAMP(), INTERVAL @history_days DAY)
\*   AND job_type = 'QUERY' AND statement_type != 'SCRIPT'
JobStatsAt(J, now, historyDays) ==
  { j \in Range(J) : /\ j.creation_time >= now - historyDays * SecondsPerDay
                     /\ j.job_type = "QUERY"
                     /\ j.statement_type # "SCRIPT" }

JobStats(J) == JobStatsAt(J, RunTime, DefaultHistoryDays)

\* variant: the grouping columns without the date
KeyOfNoDate(j) ==
  [date            |-> 0,
   project_id      |-> j.project_id,
   user_email      |-> j.user_email,
   service_account |-> ServiceAccount(j.user_email)]

\* the columns every CTE groups by
KeyOf(j) ==
  [date            |-> DateOf(j.creation_time),
   project_id      |-> j.project_id,
   user_email      |-> j.user_email,
   service_account |-> ServiceAccount(j.user_email)]

\* a.service_account = b.service_account OR (both IS NULL), and the other
\* three columns equal
SameKey(a, b) ==
  /\ a.date = b.date
  /\ a.project_id = b.project_id
  /\ a.user_email = b.user_email
  /\ \/ (~IsNull(a.service_account) /\ ~IsNull(b.service_account)
            /\ a.service_account = b.service_account)
     \/ (IsNull(a.service_account) /\ IsNull(b.service_account))

\* ROUND(bytes / POWER(1024, 4) * @cost_per_terabyte, 2), bytes = num / den
CostUsd(num, den, cpt) == RoundDiv(num * cpt, den * TebiUnits)

(***************************************************************************)
(* cost_query.sql: table_costs and dataset_costs                           *)
(***************************************************************************)
\* FROM job_stats js, UNNEST(js.referenced_tables_detail) AS table_detail
\* WHERE ARRAY_LENGTH(js.referenced_tables_detail) > 0
UnnestTables(JS) ==
  UNION { { [js |-> j, table_detail |-> ReferencedTablesDetail(j)[i]] :
              i \in 1..Len(ReferencedTablesDetail(j)) } :
          j \in { k \in JS : Len(ReferencedTablesDetail(k)) > 0 } }

\* variant: the bytes divided by the number of datasets, not of tables
BytesShareByDatasets(total, j) ==
  (total * ShareDen) \div Cardinality(ReferencedDatasets(j))

\* total_bytes / ARRAY_LENGTH(js.referenced_tables_detail), over ShareDen
BytesShare(total, j) == (total * ShareDen) \div Len(ReferencedTablesDetail(j))

\* variant: every table a rebuilding record reads counts as rebuilt
RebuildTermAnyTable(j, td) == IsTableRebuild(j)

\* js.is_table_rebuild AND js.destination_table.dataset_id = table_detail.dataset_id
\*                     AND js.destination_table.table_id = table_detail.table_id
RebuildTerm(j, td) ==
  /\ IsTableRebuild(j)
  /\ j.destination_table[1].dataset_id = td.dataset_id
  /\ j.destination_table[1].table_id = td.table_id

TableCostRow(key, td, members, cpt) ==
  LET processed == SumOver([u \in members |->
                     BytesShare(u.js.total_bytes_processed, u.js)], members)
      billed    == SumOver([u \in members |->
                     BytesShare(u.js.total_bytes_billed, u.js)], members)
  IN  [date            |-> key.date,
       project_id      |-> key.project_id,
       user_email      |-> key.user_email,
       service_account |-> key.service_account,
       table_name      |-> td,
       table_project   |-> td.project_id,
       table_dataset   |-> td.dataset_id,
       table_id        |-> td.table_id,
       query_count     |-> Cardinality(members),
       is_rebuild_operation |-> \E u \in members : RebuildTerm(u.js, td),
       bytes_processed |-> processed,
       bytes_billed    |-> billed,
       table_cost_usd  |-> CostUsd(billed, ShareDen, cpt)]

\* GROUP BY date, project_id, user_email, service_account, table_name, ...
TableCosts(JS, cpt) ==
  UNION { LET U == UnnestTables({ j \in JS : KeyOf(j) = k })
          IN  { TableCostRow(k, td, { u \in U : u.table_detail = td }, cpt) :
                td \in { u.table_detail : u \in U } } :
          k \in { KeyOf(j) : j \in JS } }

DatasetCostRow(key, dataset, members) ==
  [date            |-> key.date,
   project_id      |-> key.project_id,
   user_email      |-> key.user_email,
   service_account |-> key.service_account,
   dataset         |-> dataset,
   query_count     |-> SumOver([tc \in members |-> tc.query_count], members),
   bytes_processed |-> SumOver([tc \in members |-> tc.bytes_processed], members),
   bytes_billed    |-> SumOver([tc \in members |-> tc.bytes_billed], members),
   dataset_cost_usd |-> SumOver([tc \in members |-> tc.table_cost_usd], members),
   rebuild_operations |->
     SumOver([tc \in members |-> IF tc.is_rebuild_operation THEN 1 ELSE 0], members)]

RowKey(r) ==
  [date            |-> r.date,
   project_id      |-> r.project_id,
   user_email      |-> r.user_email,
   service_account |-> r.service_account]

DatasetCosts(TC) ==
  LET groups == { << RowKey(tc), DatasetName(tc.table_project, tc.table_dataset) >> :
                  tc \in TC }
  IN  { DatasetCostRow(g[1], g[2],
          { tc \in TC : /\ RowKey(tc) = g[1]
                        /\ DatasetName(tc.table_project, tc.table_dataset) = g[2] }) :
        g \in groups }

(***************************************************************************)
(* cost_query.sql: query_details and the aggregates per hour, weekday, day *)
(***************************************************************************)
QueryDetail(j, cpt) ==
  [job_id                |-> j.job_id,
   creation_time         |-> j.creation_time,
   date                  |-> DateOf(j.creation_time),
   timestamp             |-> j.creation_time,
   project_id            |-> j.project_id,
   user_email            |-> j.user_email,
   service_account       |-> ServiceAccount(j.user_email),
   statement_type        |-> j.statement_type,
   total_bytes_processed |-> j.total_bytes_processed,
   cache_hit             |-> j.cache_hit,
   has_error             |-> ~IsNull(j.error_result),
   query_cost_usd        |-> CostUsd(j.total_bytes_billed, 1, cpt)]

QueryDetails(JS, cpt) == { QueryDetail(j, cpt) : j \in JS }

HourlyAggregates(JS, cpt) ==
  { LET members == { j \in JS : KeyOf(j) = g[1] /\ HourOfDay(j.creation_time) = g[2] }
        billed  == SumOver([j \in members |-> j.total_bytes_billed], members)
    IN  [date               |-> g[1].date,
         project_id         |-> g[1].project_id,
         user_email         |-> g[1].user_email,
         service_account    |-> g[1].service_account,
         hour_of_day        |-> g[2],
         query_count        |-> Cardinality(members),
         cache_hit_count    |-> Cardinality({ j \in members : j.cache_hit }),
         error_count        |-> Cardinality({ j \in members : ~IsNull(j.error_result) }),
         total_bytes_processed |->
           SumOver([j \in members |-> j.total_bytes_processed], members),
         total_bytes_billed |-> billed,
         estimated_cost_usd |-> CostUsd(billed, 1, cpt)] :
    g \in { << KeyOf(j), HourOfDay(j.creation_time) >> : j \in JS } }

WeekdayAggregates(JS, cpt) ==
  { LET members == { j \in JS : KeyOf(j) = g[1] /\ DayOfWeek(j.creation_time) = g[2] }
        billed  == SumOver([j \in members |-> j.total_bytes_billed], members)
    IN  [date               |-> g[1].date,
         project_id         |-> g[1].project_id,
         user_email         |-> g[1].user_email,
         service_account    |-> g[1].service_account,
         day_of_week        |-> g[2],
         query_count        |-> Cardinality(members),
         total_bytes_billed |-> billed,
         estimated_cost_usd |-> CostUsd(billed, 1, cpt)] :
    g \in { << KeyOf(j), DayOfWeek(j.creation_time) >> : j \in JS } }

\* variant: the percentage rounded to a whole percent
CacheHitPercentageWhole(hits, count) ==
  IF count = 0 THEN NULL ELSE Some(100 * RoundDiv(hits * 100, count))

\* ROUND(hits / NULLIF(count, 0) * 100, 2), in hundredths of a percent
CacheHitPercentage(hits, count) ==
  IF count = 0 THEN NULL ELSE Some(RoundDiv(hits * 100 * 100, count))

UserDailyBaseRow(key, members, cpt) ==
  LET hits   == Cardinality({ j \in members : j.cache_hit })
      billed == SumOver([j \in members |-> j.total_bytes_billed], members)
  IN  [date                  |-> key.date,
       project_id            |-> key.project_id,
       user_email            |-> key.user_email,
       service_account       |-> key.service_account,
       query_count           |-> Cardinality(members),
       cache_hit_count       |-> hits,
       error_count           |-> Cardinality({ j \in members : ~IsNull(j.error_result) }),
       total_bytes_processed |-> SumOver([j \in members |-> j.total_bytes_processed], members),
       total_bytes_billed    |-> billed,
       estimated_cost_usd    |-> CostUsd(billed, 1, cpt),
       \* SUM(total_slot_ms) / 1000 / 3600, as the numerator over MsPerHour
       slot_hours            |-> SumOver([j \in members |-> j.total_slot_ms], members),
       cache_hit_percentage  |-> CacheHitPercentage(hits, Cardinality(members))]

\* variant: the scalar columns over the records that reference a table only
UserDailyBaseTablesOnly(JS, cpt) ==
  { UserDailyBaseRow(k, { j \in JS : KeyOf(j) = k /\ Len(j.referenced_tables) > 0 }, cpt) :
    k \in { KeyOf(j) : j \in JS } }

UserDailyBase(JS, cpt) ==
  { UserDailyBaseRow(k, { j \in JS : KeyOf(j) = k }, cpt) : k \in { KeyOf(j) : j \in JS } }

(***************************************************************************)
(* cost_query.sql: the arrays joined to every user_daily_base row.  tie is *)
(* the order the engine gives to rows that ORDER BY leaves unordered.      *)
(***************************************************************************)
TieBreaks == { "asc", "desc" }
Signed(tie, n) == IF tie = "asc" THEN n ELSE 0 - n

TableRank(td)  == 2 * td.table_id + (IF td.project_id = MonitoredProject THEN 0 ELSE 1)
DatasetRank(d) == 2 * d[2] + (IF d[1] = MonitoredProject THEN 0 ELSE 1)
EmailRank(e)   == IF e = Alice THEN 1 ELSE 2

HourlyStruct(ha) ==
  [hour_of_day |-> ha.hour_of_day, hourly_queries |-> ha.query_count,
   hourly_cost |-> ha.estimated_cost_usd]

DailyStruct(wa) ==
  [day_of_week |-> wa.day_of_week, daily_queries |-> wa.query_count,
   daily_cost |-> wa.estimated_cost_usd]

DatasetStruct(dc) ==
  [dataset |-> dc.dataset, bytes_processed |-> dc.bytes_processed,
   bytes_billed |-> dc.bytes_billed, dataset_cost_usd |-> dc.dataset_cost_usd,
   rebuild_operations |-> dc.rebuild_operations]

\* variant: the whole table cost reported as rebuild cost, rebuilt or not
TableStructRebuildAlways(tc) ==
  [table_name           |-> tc.table_name,
   table_id             |-> tc.table_id,
   dataset_name         |-> DatasetName(tc.table_project, tc.table_dataset),
   bytes_processed      |-> tc.bytes_processed,
   bytes_billed         |-> tc.bytes_billed,
   table_cost_usd       |-> tc.table_cost_usd,
   is_rebuild_operation |-> tc.is_rebuild_operation,
   rebuild_cost_usd     |-> tc.table_cost_usd,
   incremental_cost_usd |-> IF ~tc.is_rebuild_operation THEN tc.table_cost_usd ELSE 0,
   rebuild_count        |-> IF tc.is_rebuild_operation THEN 1 ELSE 0]

\* STRUCT(tc.table_name, ..., rebuild_cost_usd, incremental_cost_usd, rebuild_count)
TableStruct(tc) ==
  [table_name           |-> tc.table_name,
   table_id             |-> tc.table_id,
   dataset_name         |-> DatasetName(tc.table_project, tc.table_dataset),
   bytes_processed      |-> tc.bytes_processed,
   bytes_billed         |-> tc.bytes_billed,
   table_cost_usd       |-> tc.table_cost_usd,
   is_rebuild_operation |-> tc.is_rebuild_operation,
   rebuild_cost_usd     |-> IF tc.is_rebuild_operation THEN tc.table_cost_usd ELSE 0,
   incremental_cost_usd |-> IF ~tc.is_rebuild_operation THEN tc.table_cost_usd ELSE 0,
   rebuild_count        |-> IF tc.is_rebuild_operation THEN 1 ELSE 0]

\* timestamp is FORMAT_TIMESTAMP('%Y-%m-%d %H:%M:%S', creation_time): the time
\* to the second, which is the unit creation_time is counted in
QueryStruct(qd) ==
  [job_id |-> qd.job_id, timestamp |-> qd.timestamp,
   statement_type |-> qd.statement_type,
   total_bytes_processed |-> qd.total_bytes_processed,
   query_cost_usd |-> qd.query_cost_usd, cache_hit |-> qd.cache_hit,
   has_error |-> qd.has_error]

\* variant: the hours of the day latest first
HourlyBreakdownLatestFirst(rows) ==
  LET s == OrderByDesc(rows, [r \in rows |-> r.hour_of_day],
                       [r \in rows |-> r.hour_of_day])
  IN  [i \in 1..Len(s) |-> HourlyStruct(s[i])]

\* ARRAY_AGG(STRUCT(...) ORDER BY ha.hour_of_day): ascending, hours distinct
HourlyBreakdown(rows) ==
  LET s == OrderByDesc(rows, [r \in rows |-> 0 - r.hour_of_day],
                       [r \in rows |-> r.hour_of_day])
  IN  [i \in 1..Len(s) |-> HourlyStruct(s[i])]

DailyBreakdown(rows) ==
  LET s == OrderByDesc(rows, [r \in rows |-> 0 - r.day_of_week],
                       [r \in rows |-> r.day_of_week])
  IN  [i \in 1..Len(s) |-> DailyStruct(s[i])]

\* variant: the dataset array cut after DatasetLimit entries
DatasetCostsArrayTopN(rows, tie) ==
  LET s == Limit(OrderByDesc(rows, [r \in rows |-> r.dataset_cost_usd],
                       [r \in rows |-> Signed(tie, DatasetRank(r.dataset))]),
                 DatasetLimit)
  IN  [i \in 1..Len(s) |-> DatasetStruct(s[i])]

\* ARRAY_AGG(STRUCT(...) ORDER BY dc.dataset_cost_usd DESC)
DatasetCostsArray(rows, tie) ==
  LET s == OrderByDesc(rows, [r \in rows |-> r.dataset_cost_usd],
                       [r \in rows |-> Signed(tie, DatasetRank(r.dataset))])
  IN  [i \in 1..Len(s) |-> DatasetStruct(s[i])]

\* variant: the table array by ascending cost
TableCostsArrayAscending(rows, tie) ==
  LET s == Limit(OrderByDesc(rows, [r \in rows |-> 0 - r.table_cost_usd],
                       [r \in rows |-> Signed(tie, TableRank(r.table_name))]),
                 TableLimit)
  IN  [i \in 1..Len(s) |-> TableStruct(s[i])]

\* ARRAY_AGG(STRUCT(...) ORDER BY tc.table_cost_usd DESC LIMIT 100)
TableCostsArray(rows, tie) ==
  LET s == Limit(OrderByDesc(rows, [r \in rows |-> r.table_cost_usd],
                       [r \in rows |-> Signed(tie, TableRank(r.table_name))]),
                 TableLimit)
  IN  [i \in 1..Len(s) |-> TableStruct(s[i])]

\* variant: the query array oldest first
RecentQueriesArrayOldestFirst(rows, tie) ==
  LET s == Limit(OrderByDesc(rows, [r \in rows |-> 0 - r.creation_time],
                       [r \in rows |-> Signed(tie, r.job_id)]),
                 QueryLimit)
  IN  [i \in 1..Len(s) |-> QueryStruct(s[i])]

\* ARRAY_AGG(STRUCT(...) ORDER BY qd.creation_time DESC LIMIT 100)
RecentQueriesArray(rows, tie) ==
  LET s == Limit(OrderByDesc(rows, [r \in rows |-> r.creation_time],
                       [r \in rows |-> Signed(tie, r.job_id)]),
                 QueryLimit)
  IN  [i \in 1..Len(s) |-> QueryStruct(s[i])]

\* variant: the join without the date column
MatchingAnyDate(rollup, udb) ==
  { r \in rollup : SameKey([r EXCEPT !.date = udb.date], udb) }

\* x LEFT JOIN rollup ON the key columns: the rollup rows of one
\* user_daily_base row (the inner JOIN and GROUP BY of the user_* CTEs)
Matching(rollup, udb) == { r \in rollup : SameKey(r, udb) }

\* the array of a user_* CTE as seen through the LEFT JOIN of
\* user_daily_stats: NULL when the CTE has no row for the key
LeftJoined(matching, array) == IF matching = {} THEN NULL ELSE Some(array)

UserDailyStatsRow(udb, HA, WA, DC, TC, QD, tie) ==
  LET ha == Matching(HA, udb)
      wa == Matching(WA, udb)
      dc == Matching(DC, udb)
      tc == Matching(TC, udb)
      qd == Matching(QD, udb)
  IN  [date                  |-> udb.date,
       project_id            |-> udb.project_id,
       user_email            |-> udb.user_email,
       service_account       |-> udb.service_account,
       query_count           |-> udb.query_count,
       cache_hit_count       |-> udb.cache_hit_count,
       error_count           |-> udb.error_count,
       total_bytes_processed |-> udb.total_bytes_processed,
       total_bytes_billed    |-> udb.total_bytes_billed,
       estimated_cost_usd    |-> udb.estimated_cost_usd,
       slot_hours            |-> udb.slot_hours,
       cache_hit_percentage  |-> udb.cache_hit_percentage,
       hourly_breakdown      |-> LeftJoined(ha, HourlyBreakdown(ha)),
       daily_breakdown       |-> LeftJoined(wa, DailyBreakdown(wa)),
       dataset_costs         |-> LeftJoined(dc, DatasetCostsArray(dc, tie)),
       table_costs           |-> LeftJoined(tc, TableCostsArray(tc, tie)),
       recent_queries        |-> LeftJoined(qd, RecentQueriesArray(qd, tie))]

UserDailyStats(JS, cpt, tie) ==
  LET TC  == TableCosts(JS, cpt)
      DC  == DatasetCosts(TC)
      HA  == HourlyAggregates(JS, cpt)
      WA  == WeekdayAggregates(JS, cpt)
      QD  == QueryDetails(JS, cpt)
  IN  { UserDailyStatsRow(udb, HA, WA, DC, TC, QD, tie) : udb \in UserDailyBase(JS, cpt) }

\* SELECT ... FROM user_daily_stats ORDER BY date DESC, estimated_cost_usd DESC
FinalSelect(rows, tie) ==
  SortSeq(EnumBy(rows, [r \in rows |-> 2 * r.date + EmailRank(r.user_email)], 0, RankBound),
          LAMBDA x, y :
            \/ x.date > y.date
            \/ x.date = y.date /\ x.estimated_cost_usd > y.estimated_cost_usd
            \/ /\ x.date = y.date
               /\ x.estimated_cost_usd = y.estimated_cost_usd
               /\ Signed(tie, EmailRank(x.user_email)) < Signed(tie, EmailRank(y.user_email)))

CostQuery(J, cpt, tie) == FinalSelect(UserDailyStats(JobStats(J), cpt, tie), tie)

\* the query of a run at the time now with @history_days = historyDays
CostQueryAt(J, now, historyDays, cpt, tie) ==
  FinalSelect(UserDailyStats(JobStatsAt(J, now, historyDays), cpt, tie), tie)

(***************************************************************************)
(* run_monitor.js: monitorProject                                          *)
(***************************************************************************)
\* an ARRAY column of a row that bigquery.query() returns: inside the query
\* a NULL array and an empty array differ, in a query result the engine
\* renders a NULL array as the empty array
ResultArray(x) == IF IsNull(x) THEN Some(<< >>) ELSE x

ResultRow(r) ==
  [r EXCEPT !.hourly_breakdown = ResultArray(@),
            !.daily_breakdown  = ResultArray(@),
            !.dataset_costs    = ResultArray(@),
            !.table_costs      = ResultArray(@),
            !.recent_queries   = ResultArray(@)]

\* const [costRows] = await bigquery.query({ query, params, location })
QueryResult(rows) == [i \in 1..Len(rows) |-> ResultRow(rows[i])]

\* costRows.reduce((sum, row) => sum + (row.<field> || 0), 0)
ReduceSum(rows, field) ==
  SumSeq([i \in 1..Len(rows) |-> rows[i][field]])
    - SumSeq([i \in 1..Len(rows) |-> 0 - rows[i][field]])

MonitorResult(costRows, cpt) ==
  [project             |-> MonitoredProject,
   records             |-> Len(costRows),
   totalCost           |-> ReduceSum(costRows, "estimated_cost_usd"),
   totalBytesProcessed |-> ReduceSum(costRows, "total_bytes_processed"),
   totalQueries        |-> ReduceSum(costRows, "query_count"),
   data                |-> costRows,
   params              |-> [costPerTerabyte |-> cpt]]

(***************************************************************************)
(* run_monitor.js: the parameters of a run, runCostMonitoring, and the     *)
(* Cloud Function monitorCosts                                             *)
(***************************************************************************)
\* config.projects
ConfigProjects == << [id |-> MonitoredProject, disabled |-> FALSE],
                     [id |-> "sandbox",        disabled |-> TRUE],
                     [id |-> OtherProject,     disabled |-> FALSE] >>

\* a JavaScript number in a condition: undefined and 0 are falsy
TruthyNumber(x) == ~IsNull(x) /\ x[1] # 0

\* options.<name> || (config.settings && config.settings.<name>) || DEFAULT_<NAME>
Fallback(option, setting, default) ==
  IF TruthyNumber(option) THEN option[1]
  ELSE IF TruthyNumber(setting) THEN setting[1]
  ELSE default

\* where one parameter may come from: << options, config.settings, DEFAULT_ >>,
\* the last parsed from the environment when the process starts
Sources(valid) ==
  { << NULL, Some(valid), valid >>,             \* the configuration file
    << Some(0 - valid), Some(valid), valid >>,  \* a negative option
    << Some(0), Some(valid), valid >>,          \* a zero option
    << NULL, Some(0 - valid), valid >>,         \* a negative setting
    << NULL, NULL, 0 >> }                       \* a zero in the environment

\* historyDays and costPerTerabyte of monitorProject
ResolveParams(input) ==
  [historyDays     |-> Fallback(input.historyDays[1], input.historyDays[2],
                                input.historyDays[3]),
   costPerTerabyte |-> Fallback(input.costPerTerabyte[1], input.costPerTerabyte[2],
                                input.costPerTerabyte[3])]

\* the rows the cost query returns for a project: the monitored project has
\* one actor-day of half a TiB inside every window that is not empty
ProjectRows(project, params) ==
  IF project.id = MonitoredProject /\ params.historyDays > 0
  THEN << [date                  |-> 0,
           project_id            |-> project.id,
           query_count           |-> 2,
           total_bytes_processed |-> TebiUnits \div 2,
           estimated_cost_usd    |-> CostUsd(TebiUnits \div 2, 1,
                                            params.costPerTerabyte)] >>
  ELSE << >>

\* how the try block of monitorProject may end
Outcomes == { "ok", "query failed", "write failed", "write torn" }

\* what monitorProject returns: the result of the try block, or the entry
\* of its catch block
MonitorProject(project, params, outcome) ==
  IF outcome = "ok"
  THEN [MonitorResult(ProjectRows(project, params), params.costPerTerabyte)
          EXCEPT !.project = project.id, !.params = params]
  ELSE [project |-> project.id, error |-> outcome, params |-> params]

\* variant: monitorProject without its catch block
EscapesRethrown(outcome) == outcome # "ok"

\* whether an error of the try block leaves monitorProject: the catch block
\* returns an entry for every error
Escapes(outcome) == FALSE

\* the files that fs.writeJson(outputPath, costRows) leaves: nothing when the
\* query or the open failed, a truncated text when the write failed midway
CostFiles(project, params, outcome) ==
  IF outcome = "ok"
  THEN { [project |-> project.id, complete |-> TRUE,
          rows |-> ProjectRows(project, params)] }
  ELSE IF outcome = "write torn"
  THEN { [project |-> project.id, complete |-> FALSE, rows |-> << >>] }
  ELSE { }

\* r with one more property
WithField(r, name, v) == [f \in DOMAIN r \cup { name } |-> IF f = name THEN v ELSE r[f]]

\* monitorCosts: the upload of a result without error sets gcsPath or gcsError
Uploaded(entry, uploadOk) ==
  IF "error" \in DOMAIN entry THEN entry
  ELSE IF uploadOk THEN WithField(entry, "gcsPath", entry.project)
  ELSE WithField(entry, "gcsError", "upload failed")

\* results.map(r => ({ project, success: !r.error, records, totalCost, error }))
ResponseEntry(r) ==
  IF "error" \in DOMAIN r
  THEN [project |-> r.project, success |-> FALSE, error |-> r.error]
  ELSE [project |-> r.project, success |-> TRUE,
        records |-> r.records, totalCost |-> r.totalCost]

(***************************************************************************)
(* Dataform: createCostMonitoringTable and createDailySummaryView          *)
(***************************************************************************)
DatasetShareDen == 2 * WideDatasets   \* divisible by every number of datasets

\* FROM job_stats js, UNNEST(js.referenced_datasets) AS dataset
UnnestDatasets(JS) ==
  UNION { { [js |-> j, dataset |-> d] : d \in ReferencedDatasets(j) } :
          j \in { k \in JS : Cardinality(ReferencedDatasets(k)) > 0 } }

\* total_bytes / ARRAY_LENGTH(js.referenced_datasets), over DatasetShareDen
DatasetBytesShare(total, j) ==
  (total * DatasetShareDen) \div Cardinality(ReferencedDatasets(j))

DataformDatasetCosts(JS, cpt) ==
  LET U == UnnestDatasets(JS)
  IN  { LET members == { u \in U : KeyOf(u.js) = g[1] /\ u.dataset = g[2] }
            billed  == SumOver([u \in members |->
                         DatasetBytesShare(u.js.total_bytes_billed, u.js)], members)
        IN  [date             |-> g[1].date,
             project_id       |-> g[1].project_id,
             user_email       |-> g[1].user_email,
             service_account  |-> g[1].service_account,
             dataset          |-> g[2],
             query_count      |-> Cardinality(members),
             bytes_processed  |-> SumOver([u \in members |->
                         DatasetBytesShare(u.js.total_bytes_processed, u.js)], members),
             bytes_billed     |-> billed,
             dataset_cost_usd |-> CostUsd(billed, DatasetShareDen, cpt)] :
        g \in { << KeyOf(u.js), u.dataset >> : u \in U } }

DataformDatasetStruct(dc) ==
  [dataset |-> dc.dataset, bytes_processed |-> dc.bytes_processed,
   bytes_billed |-> dc.bytes_billed, dataset_cost_usd |-> dc.dataset_cost_usd]

\* aggregated_dataset_costs: ARRAY_AGG(... ORDER BY dc.dataset_cost_usd DESC)
AggregatedDatasetCosts(rows, tie) ==
  LET s == OrderByDesc(rows, [r \in rows |-> r.dataset_cost_usd],
                       [r \in rows |-> Signed(tie, DatasetRank(r.dataset))])
  IN  [i \in 1..Len(s) |-> DataformDatasetStruct(s[i])]

\* variant: the column without IFNULL
IfNullDropped(x, default) == x

\* IFNULL(adc.dataset_costs, [])
IfNull(x, default) == IF IsNull(x) THEN Some(default) ELSE x

CostMonitoringTable(J, cpt, tie) ==
  LET JS == JobStats(J)
      DC == DataformDatasetCosts(JS, cpt)
  IN  { LET adc == Matching(DC, us)
        IN  [date                  |-> us.date,
             project_id            |-> us.project_id,
             user_email            |-> us.user_email,
             service_account       |-> us.service_account,
             query_count           |-> us.query_count,
             cache_hit_count       |-> us.cache_hit_count,
             error_count           |-> us.error_count,
             total_bytes_processed |-> us.total_bytes_processed,
             total_bytes_billed    |-> us.total_bytes_billed,
             estimated_cost_usd    |-> us.estimated_cost_usd,
             slot_hours            |-> us.slot_hours,
             cache_hit_percentage  |-> us.cache_hit_percentage,
             dataset_costs         |->
               IfNull(LeftJoined(adc, AggregatedDatasetCosts(adc, tie)), << >>)] :
        us \in UserDailyBase(JS, cpt) }

\* ROUND(AVG(cache_hit_percentage), 2): AVG ignores NULL; NULL over no value
AvgCacheHitPercentage(members) ==
  LET vals == { r \in members : ~IsNull(r.cache_hit_percentage) }
  IN  IF vals = {} THEN NULL
      ELSE Some(RoundDiv(SumOver([r \in vals |-> r.cache_hit_percentage[1]], vals),
                         Cardinality(vals)))

\* createDailySummaryView: SELECT ... FROM <source table> GROUP BY date, project_id
DailySummaryView(table) ==
  { LET members == { r \in table : r.date = g[1] /\ r.project_id = g[2] }
    IN  [date                     |-> g[1],
         project_id               |-> g[2],
         total_queries            |-> SumOver([r \in members |-> r.query_count], members),
         total_cache_hits         |-> SumOver([r \in members |-> r.cache_hit_count], members),
         total_errors             |-> SumOver([r \in members |-> r.error_count], members),
         total_bytes_processed    |->
           SumOver([r \in members |-> r.total_bytes_processed], members),
         total_bytes_billed       |->
           SumOver([r \in members |-> r.total_bytes_billed], members),
         total_estimated_cost_usd |->
           SumOver([r \in members |-> r.estimated_cost_usd], members),
         total_slot_hours         |-> SumOver([r \in members |-> r.slot_hours], members),
         avg_cache_hit_percentage |-> AvgCacheHitPercentage(members)] :
    g \in { << r.date, r.project_id >> : r \in table } }

(***************************************************************************)
(* Dashboard: the rows of a cost file and the charts drawn from them       *)
(***************************************************************************)
MaxItems == 2                    \* rows of the cost file the dashboard loaded
TopEntities == 8                 \* .slice(0, 8) of updateUserCostChart

\* emails that come close to the two patterns of job_stats
ServiceAgent == << "service-", "1234@compute.example" >>
Impostor     == << "bob", ".gserviceaccount.com", "@evil.example" >>
Helpdesk     == << "customer-", "service-", "desk@example.com" >>
EmptyEmail   == << >>
Unknown      == << "Unknown" >>

\* user_email of a row of the cost file: null or a string
ItemEmails == { NULL, Some(EmptyEmail), Some(Alice), Some(Etl),
                Some(ServiceAgent), Some(Impostor), Some(Helpdesk) }

\* the CASE of job_stats over a nullable user_email: NULL LIKE ... is NULL,
\* so that the CASE takes its ELSE
ServiceAccountColumn(email) ==
  IF IsNull(email) THEN NULL ELSE ServiceAccount(email[1])

\* query_count, cache_hit_count and estimated_cost_usd of a row
ItemStats == { << 1, 1, 0 >>, << 2, 1, 250 >>, << 4, 0, 500 >> }

CostItem(email, stats) ==
  [user_email         |-> email,
   service_account    |-> ServiceAccountColumn(email),
   query_count        |-> stats[1],
   cache_hit_count    |-> stats[2],
   estimated_cost_usd |-> stats[3]]

CostItems == { CostItem(email, stats) : email \in ItemEmails, stats \in ItemStats }

\* a JavaScript string in a condition: null and '' are falsy
Truthy(s) == ~IsNull(s) /\ s[1] # << >>

\* item.service_account || item.user_email || 'Unknown'
EntityId(item) ==
  IF Truthy(item.service_account) THEN item.service_account[1]
  ELSE IF Truthy(item.user_email) THEN item.user_email[1]
  ELSE Unknown

\* costByEntity after data.forEach: an entry is made by the first item of
\* its entity and collects the cost of all of them
CostByEntity(data) ==
  LET ids == { EntityId(data[i]) : i \in DOMAIN data }
  IN  [e \in ids |->
         LET mine  == { i \in DOMAIN data : EntityId(data[i]) = e }
             first == CHOOSE i \in mine : \A k \in mine : i <= k
         IN  [entity           |-> e,
              inserted         |-> first,
              cost             |-> SumOver([i \in mine |-> data[i].estimated_cost_usd], mine),
              isServiceAccount |-> Truthy(data[first].service_account),
              type             |-> IF Truthy(data[first].service_account)
                                   THEN "Service Account" ELSE "User"]]

\* Object.entries(costByEntity).sort((a, b) => b[1].cost - a[1].cost).slice(0, 8):
\* the entries come in the order of insertion and the sort is stable
TopEntitiesByCost(cbe) ==
  LET entries == { cbe[e] : e \in DOMAIN cbe }
  IN  Limit(SortSeq(EnumBy(entries, [x \in entries |-> x.inserted], 1, MaxItems + 1),
                    LAMBDA a, b : \/ a.cost > b.cost
                                  \/ a.cost = b.cost /\ a.inserted < b.inserted),
            TopEntities)

\* updateUserCostChart; the display names cut from the entity are not modelled
UserCostChart(data) == TopEntitiesByCost(CostByEntity(data))

\* a JavaScript number a / b that is kept exact; 0 / 0 is NaN
Frac(a, b) == [num |-> a, den |-> b]

\* data.reduce((sum, item) => sum + (item.<field> || 0), 0)
ReduceItems(data, field) == SumSeq([i \in DOMAIN data |-> data[i][field]])

\* variant: the percentage without the guard on totalQueries
CacheHitShareUnguarded(cacheHits, totalQueries) == Frac(cacheHits * 100, totalQueries)

\* totalQueries > 0 ? (cacheHits / totalQueries) * 100 : 0
CacheHitShare(cacheHits, totalQueries) ==
  IF totalQueries > 0 THEN Frac(cacheHits * 100, totalQueries) ELSE Frac(0, 1)

\* updateCacheHitChart: the two values of the doughnut
CacheHitChart(data) ==
  LET totalQueries == ReduceItems(data, "query_count")
      cacheHits    == ReduceItems(data, "cache_hit_count")
      pct          == CacheHitShare(cacheHits, totalQueries)
  IN  [cacheHitPercentage    |-> pct,
       nonCacheHitPercentage |-> Frac(100 * pct.den - pct.num, pct.den)]

(***************************************************************************)
(* The state machine                                                       *)
(***************************************************************************)
VARIABLES
  jobs,        \* the rows of INFORMATION_SCHEMA.JOBS, in the order of submission
  submitted,   \* number of submissions so far
  result,      \* NULL, or Some(what the last monitorProject returned)
  costTable,   \* NULL, or Some(the rows of the Dataform cost monitoring table)
  costData,      \* dashboard: the rows of the cost file it loaded
  userCostChart, \* dashboard: NULL, or Some(the entities of the user cost chart)
  cacheHitChart, \* dashboard: NULL, or Some(the two values of the cache hit chart)
  runInput,      \* run: the entry point and where its parameters come from
  nextProject,   \* run: index in config.projects of the project that is next
  results,       \* run: the array results
  issued,        \* run: the params of the queries given to bigquery.query
  outputDir,     \* run: the files of the output directory
  finish,        \* run: NULL, or Some(how the entry point ended)
  monitorOptions,    \* package: the options of each BigQueryCostMonitor
  createdTables,     \* package: the Set createdTables of each instance
  costMonitoringName, \* package: tableNames.costMonitoring of each instance
  published,         \* package: the bag of the calls of Dataform's publish
  clock,             \* package: Date.now() of the compilation
  calls,             \* package: number of create calls so far
  lastCall,          \* package: NULL, or Some(the last create call and its value)
  serverTime,     \* server: the time in seconds
  utcOffset,      \* server: what local time is ahead of the time
  runLog,         \* server: what the log tells of the project runs so far
  served,         \* server: NULL, or Some(the last request for costs and its response)
  currentProject, \* page: dashboardState.currentProject, NULL or Some(id)
  pending,        \* page: the requests of loadCostData in flight
  requests,       \* page: number of requests so far
  latestRequest,  \* page: NULL, or Some(the request of the last selectProject)
  lastLoad,       \* page: NULL, or Some(the last response and what loadCostData made of it)
  emptyState,     \* page: NULL, or Some(the message of the empty state on display)
  chartHandles,   \* page: costTrendChart, userCostChart, cacheHitChart of the chart module
  chartObjects    \* page: every Chart constructed so far

queryVars == << jobs, submitted, result, costTable >>
dashVars == << costData, userCostChart, cacheHitChart >>
runVars == << runInput, nextProject, results, issued, outputDir, finish >>
pkgVars == << monitorOptions, createdTables, costMonitoringName, published, clock, calls,
             lastCall >>
pageVars == << serverTime, utcOffset, runLog, served, currentProject, pending, requests, latestRequest,
              lastLoad, emptyState, chartHandles, chartObjects >>
otherVars == << pkgVars, pageVars >>
vars == << queryVars, dashVars, runVars, otherVars >>

\* no run of the monitor
RunIdle ==
  /\ runInput = [entry |-> "none", method |-> "none",
                 historyDays |-> << NULL, NULL, DefaultHistoryDays >>,
                 costPerTerabyte |-> << NULL, NULL, DefaultCostPerTB >>]
  /\ nextProject = 1
  /\ results = << >>
  /\ issued = << >>
  /\ outputDir = { }
  /\ finish = NULL

\* the dashboard before it has loaded a cost file
DashIdle ==
  /\ costData = << >>
  /\ userCostChart = NULL
  /\ cacheHitChart = NULL

\* the JOBS view before any job
QueryIdle ==
  /\ jobs = << >>
  /\ submitted = 0
  /\ result = NULL
  /\ costTable = NULL

\* the BigQueryCostMonitor instances of one Dataform compilation
Monitors == { "costMonitor", "otherMonitor" }

\* the three module-level chart handles of the dashboard
ChartNames == { "costTrendChart", "userCostChart", "cacheHitChart" }

\* two instances made with new BigQueryCostMonitor({ useExistingDataset: true })
\* before any create call
PackageIdle ==
  /\ monitorOptions = [m \in Monitors |->
                         [schema |-> << "analytics" >>, useExistingDataset |-> TRUE]]
  /\ createdTables = [m \in Monitors |-> { }]
  /\ costMonitoringName = [m \in Monitors |-> << "bq", "_", "cost_monitoring" >>]
  /\ published = EmptyBag
  /\ clock = 0
  /\ calls = 0
  /\ lastCall = NULL

\* the dashboard page after initialisation, no project selected; the clock
\* of the server shows summer time
PageIdle ==
  /\ serverTime = 0
  /\ utcOffset = SecondsPerHour
  /\ runLog = << >>
  /\ served = NULL
  /\ currentProject = NULL
  /\ pending = { }
  /\ requests = 0
  /\ latestRequest = NULL
  /\ lastLoad = NULL
  /\ emptyState = NULL
  /\ chartHandles = [c \in ChartNames |-> NULL]
  /\ chartObjects = << >>

OtherIdle == PackageIdle /\ PageIdle

Init == QueryIdle /\ DashIdle /\ RunIdle /\ OtherIdle

\* nothing has read the JOBS view yet
Collecting == IsNull(result) /\ IsNull(costTable)

\* creation_time of the latest job: the view is filled in the order of time
LastTime == IF jobs = << >> THEN 0 ELSE jobs[Len(jobs)].creation_time

\* the JOBS view is a set of rows: the model records the jobs of one
\* creation_time in one order, by kind and actor (the order the engine gives
\* to rows that ORDER BY leaves equal is the tie of the run)
JobRank(email, shape) ==
  2 * (CHOOSE k \in 1..Len(ShapeList) : ShapeList[k] = shape) + EmailRank(email)
LastRank ==
  LET j == jobs[Len(jobs)]
  IN  JobRank(j.user_email, [f \in DOMAIN CachedShape |-> j[f]])

\* one query job is recorded in the JOBS view
SubmitJob(email, t, shape) ==
  /\ Collecting
  /\ submitted < MaxJobs
  /\ t >= LastTime
  /\ IF jobs = << >> THEN TRUE
     ELSE t > LastTime \/ JobRank(email, shape) >= LastRank
  /\ jobs' = Append(jobs, NewJob(Len(jobs) + 1, email, t, shape))
  /\ submitted' = submitted + 1
  /\ UNCHANGED << result, costTable, dashVars, runVars, otherVars >>

\* one query over WideLen tables in WideDatasets datasets; the model follows
\* a bulk submission after at most one single job, and submits nothing after
SubmitWide(email, t) ==
  /\ Collecting
  /\ submitted < MaxJobs /\ Len(jobs) <= 1
  /\ t >= LastTime
  /\ jobs' = Append(jobs, NewJob(Len(jobs) + 1, email, t, WideShape))
  /\ submitted' = MaxJobs
  /\ UNCHANGED << result, costTable, dashVars, runVars, otherVars >>

\* a scheduled query that ran BurstLen times, once a minute
BurstGap == SecondsPerHour \div 60
SubmitBurst(email, t) ==
  /\ Collecting
  /\ submitted < MaxJobs /\ Len(jobs) <= 1
  /\ t >= LastTime
  /\ jobs' = jobs \o [i \in 1..BurstLen |->
                        NewJob(Len(jobs) + i, email, t + (i - 1) * BurstGap, ScanShape)]
  /\ submitted' = MaxJobs
  /\ UNCHANGED << result, costTable, dashVars, runVars, otherVars >>

\* three jobs of one actor within a minute: a MERGE that rebuilds TableA
\* from TableA and TableB, a query answered from the cache, and a scan of
\* TableA
SubmitTrio(email, t) ==
  /\ Collecting
  /\ submitted < MaxJobs /\ Len(jobs) <= 1
  /\ t >= LastTime
  /\ jobs' = jobs \o << NewJob(Len(jobs) + 1, email, t, MergeShape),
                         NewJob(Len(jobs) + 2, email, t + 1, CachedShape),
                         NewJob(Len(jobs) + 3, email, t + 2, HalfShape) >>
  /\ submitted' = MaxJobs
  /\ UNCHANGED << result, costTable, dashVars, runVars, otherVars >>

\* monitorProject: the query succeeds and its rows are returned
RunQuery(tie) ==
  /\ Collecting
  /\ result' = Some(MonitorResult(QueryResult(CostQuery(jobs, DefaultCostPerTB, tie)),
                                  DefaultCostPerTB))
  /\ UNCHANGED << jobs, submitted, costTable, dashVars, runVars, otherVars >>

\* Dataform materialises the cost monitoring table from the same JOBS rows;
\* the model follows the materialisation that comes after the monitor's run
RunDataform(tie) ==
  /\ ~IsNull(result) /\ IsNull(costTable)
  /\ costTable' = Some(CostMonitoringTable(jobs, DefaultCostPerTB, tie))
  /\ UNCHANGED << jobs, submitted, result, dashVars, runVars, otherVars >>

Next ==
  \/ \E email \in Emails, t \in TimeChoices, shape \in Shapes : SubmitJob(email, t, shape)
  \/ \E t \in TimeChoices : SubmitWide(Etl, t)
  \/ \E t \in TimeChoices : SubmitBurst(Etl, t)
  \/ \E email \in Emails, t \in TimeChoices : SubmitTrio(email, t)
  \/ \E tie \in TieBreaks : RunQuery(tie)
  \/ \E tie \in TieBreaks : RunDataform(tie)

Spec == Init /\ [][Next]_vars

(***************************************************************************)
(* The dashboard over one loaded cost file                                 *)
(***************************************************************************)
\* the sequences over S of length at most n
SeqsUpTo(S, n) == UNION { [1..k -> S] : k \in 0..n }

\* the dashboard has fetched the rows of a cost file
DashInit ==
  /\ QueryIdle /\ RunIdle /\ OtherIdle
  /\ costData \in SeqsUpTo(CostItems, MaxItems)
  /\ userCostChart = NULL
  /\ cacheHitChart = NULL

UpdateUserCostChart ==
  /\ IsNull(userCostChart)
  /\ userCostChart' = Some(UserCostChart(costData))
  /\ UNCHANGED << queryVars, runVars, otherVars, costData, cacheHitChart >>

UpdateCacheHitChart ==
  /\ IsNull(cacheHitChart)
  /\ cacheHitChart' = Some(CacheHitChart(costData))
  /\ UNCHANGED << queryVars, runVars, otherVars, costData, userCostChart >>

DashNext == UpdateUserCostChart \/ UpdateCacheHitChart

SpecDashboard == DashInit /\ [][DashNext]_vars

(***************************************************************************)
(* One run of the monitor: runCostMonitoring of the command line, or the   *)
(* Cloud Function monitorCosts                                             *)
(***************************************************************************)
RunInit ==
  /\ QueryIdle /\ DashIdle /\ OtherIdle
  /\ runInput \in
       { [entry |-> "cli", method |-> "none", historyDays |-> h, costPerTerabyte |-> c] :
           h \in Sources(DefaultHistoryDays), c \in Sources(DefaultCostPerTB) }
       \cup
       { [entry |-> "function", method |-> m,
          historyDays |-> << NULL, h[2], h[3] >>,
          costPerTerabyte |-> << NULL, c[2], c[3] >>] :
           m \in { "POST", "GET", "PUT" },
           h \in Sources(DefaultHistoryDays), c \in Sources(DefaultCostPerTB) }
  /\ nextProject = 1
  /\ results = << >>
  /\ issued = << >>
  /\ outputDir = { }
  /\ finish = NULL

\* if (req.method !== 'POST' && req.method !== 'GET') of monitorCosts
MethodAllowed == runInput.entry = "cli" \/ runInput.method \in { "POST", "GET" }

InLoop == IsNull(finish) /\ MethodAllowed /\ nextProject <= Len(ConfigProjects)

\* if (project.disabled) continue, of runCostMonitoring only
Skipped(project) == runInput.entry = "cli" /\ project.disabled

RejectMethod ==
  /\ IsNull(finish) /\ ~MethodAllowed
  /\ finish' = Some([status |-> "responded", code |-> 405])
  /\ UNCHANGED << queryVars, dashVars, otherVars, runInput, nextProject, results, issued, outputDir >>

SkipDisabled ==
  /\ InLoop /\ Skipped(ConfigProjects[nextProject])
  /\ nextProject' = nextProject + 1
  /\ UNCHANGED << queryVars, dashVars, otherVars, runInput, results, issued, outputDir, finish >>

\* one turn of the loop: monitorProject(project, options) and, in the Cloud
\* Function, the upload of its result
MonitorNext(outcome, uploadOk) ==
  /\ InLoop /\ ~Skipped(ConfigProjects[nextProject])
  /\ runInput.entry = "cli" => uploadOk
  /\ outcome # "ok" => uploadOk
  /\ LET project == ConfigProjects[nextProject]
         params  == ResolveParams(runInput)
         entry   == MonitorProject(project, params, outcome)
     IN  /\ issued' = Append(issued, params)
         /\ outputDir' = outputDir \cup CostFiles(project, params, outcome)
         /\ IF Escapes(outcome)
            THEN /\ finish' = Some([status |-> "rejected"])
                 /\ UNCHANGED << results, nextProject >>
            ELSE /\ results' = Append(results,
                                      IF runInput.entry = "function"
                                      THEN Uploaded(entry, uploadOk) ELSE entry)
                 /\ nextProject' = nextProject + 1
                 /\ UNCHANGED finish
  /\ UNCHANGED << queryVars, dashVars, otherVars, runInput >>

\* after the loop: runCostMonitoring writes the summary file and returns the
\* results, or rejects when the write fails; monitorCosts saves the summary
\* inside a try block and answers 200
FinishRun(summaryOk) ==
  /\ IsNull(finish) /\ MethodAllowed /\ nextProject > Len(ConfigProjects)
  /\ IF runInput.entry = "cli"
     THEN /\ finish' = Some([status |-> IF summaryOk THEN "resolved" ELSE "rejected"])
          /\ outputDir' = outputDir \cup
               (IF summaryOk
                THEN { [project |-> "summary", complete |-> TRUE, rows |-> results] }
                ELSE { })
     ELSE /\ finish' = Some([status |-> "responded", code |-> 200, success |-> TRUE,
                             projects |-> Len(results),
                             results |-> [i \in DOMAIN results |-> ResponseEntry(results[i])]])
          /\ UNCHANGED outputDir
  /\ UNCHANGED << queryVars, dashVars, otherVars, runInput, nextProject, results, issued >>

RunNext ==
  \/ RejectMethod
  \/ SkipDisabled
  \/ \E outcome \in Outcomes, uploadOk \in BOOLEAN : MonitorNext(outcome, uploadOk)
  \/ \E summaryOk \in BOOLEAN : FinishRun(summaryOk)

SpecRun == RunInit /\ [][RunNext]_vars

(***************************************************************************)
(* The Dataform package: class BigQueryCostMonitor of the npm package       *)
(***************************************************************************)
MaxCalls == 2                      \* create calls of one compilation
MaxClock == 1                      \* milliseconds the compilation takes

\* the order in which createAllTables creates
Kinds == << "costMonitoring", "dailySummary", "datasetSummary",
            "serviceAccountSummary", "userAttribution" >>

\* this.tableNames of the constructor
DefaultTableNames ==
  [costMonitoring        |-> << "bq", "_", "cost_monitoring" >>,
   dailySummary          |-> << "bq", "_", "daily_cost_summary" >>,
   datasetSummary        |-> << "bq", "_", "dataset_cost_summary" >>,
   serviceAccountSummary |-> << "bq", "_", "service_account_cost_summary" >>,
   userAttribution       |-> << "bq", "_", "user_dataset_attribution" >>]

\* a schema and a table name that a project passes in the options
AltSchema == << "analytics", "_", "bq" >>
CustomName == << "cost_monitoring" >>

\* the options of a create call: schema or name given or left out
CallOptions(kind) ==
  { [schema |-> s, name |-> n] :
      s \in { NULL, Some(AltSchema) },
      n \in IF kind = "costMonitoring" THEN { NULL, Some(CustomName) } ELSE { NULL } }

\* options.x || this.options.x, for strings
OrElse(option, default) == IF Truthy(option) THEN option[1] ELSE default

\* `${tableOptions.schema}.${tableOptions.name}`
TableKey(schema, name) == schema \o << "." >> \o name

\* `${schema}_${name}_${Date.now()}`
UniqueActionName(schema, name, t) ==
  [text |-> schema \o << "_" >> \o name \o << "_" >>, stamp |-> t]

\* variant: no table counts as created
AlreadyCreatedNever(created, key) == FALSE

\* this.createdTables.has(tableKey)
AlreadyCreated(created, key) == key \in created

\* publish(schema, name) of the class: what it asks of Dataform's publish
Publish(m, schema, name, t) ==
  [monitor |-> m,
   action  |-> IF monitorOptions[m].useExistingDataset
               THEN Some(UniqueActionName(schema, name, t)) ELSE NULL,
   schema  |-> schema,
   name    |-> name]

\* one create<Kind>(opts) of instance m on the state st of the instance and
\* of the compilation
CreateOne(st, m, kind, opts, t) ==
  LET schema == OrElse(opts.schema, monitorOptions[m].schema)
      name   == OrElse(opts.name, IF kind = "costMonitoring" THEN st.costMonitoring
                                  ELSE DefaultTableNames[kind])
      key    == TableKey(schema, name)
      stored == IF kind = "costMonitoring" THEN name ELSE st.costMonitoring
      call   == Publish(m, schema, name, t)
  IN  IF AlreadyCreated(st.created, key)
      THEN [created |-> st.created, costMonitoring |-> stored,
            published |-> st.published, key |-> key, name |-> name,
            value |-> [name |-> name]]
      ELSE [created |-> st.created \cup { key }, costMonitoring |-> stored,
            published |-> st.published (+) SetToBag({ call }), key |-> key,
            name |-> name, value |-> [declaration |-> call]]

StateOf(m) ==
  [created |-> createdTables[m], costMonitoring |-> costMonitoringName[m],
   published |-> published]

PackageUpdate(m, st) ==
  /\ createdTables' = [createdTables EXCEPT ![m] = st.created]
  /\ costMonitoringName' = [costMonitoringName EXCEPT ![m] = st.costMonitoring]
  /\ published' = st.published
  /\ calls' = calls + 1
  /\ UNCHANGED << queryVars, dashVars, runVars, pageVars, monitorOptions, clock >>

\* one of createCostMonitoringTable, createDailySummaryView,
\* createDatasetSummaryView, createServiceAccountSummaryView,
\* createUserDatasetAttributionTable
Create(m, kind, opts) ==
  /\ calls < MaxCalls
  /\ LET st == CreateOne(StateOf(m), m, kind, opts, clock)
     IN  /\ PackageUpdate(m, st)
         /\ lastCall' = Some([monitor |-> m, kind |-> kind, key |-> st.key,
                              name |-> st.name, value |-> st.value])

CreateAllTables(m, opts) ==
  /\ calls < MaxCalls
  /\ LET only == [schema |-> Some(OrElse(opts.schema, monitorOptions[m].schema)),
                  name |-> NULL]
         s1 == CreateOne(StateOf(m), m, Kinds[1], only, clock)
         s2 == CreateOne(s1, m, Kinds[2], only, clock)
         s3 == CreateOne(s2, m, Kinds[3], only, clock)
         s4 == CreateOne(s3, m, Kinds[4], only, clock)
         s5 == CreateOne(s4, m, Kinds[5], only, clock)
     IN  /\ PackageUpdate(m, s5)
         /\ lastCall' = Some([monitor |-> m, kind |-> "all",
                              value |-> [mainTable |-> s1.value,
                                         dailySummary |-> s2.value,
                                         datasetSummary |-> s3.value,
                                         serviceAccountSummary |-> s4.value,
                                         userAttribution |-> s5.value]])

\* the next millisecond
ClockTick ==
  /\ clock < MaxClock
  /\ clock' = clock + 1
  /\ UNCHANGED << queryVars, dashVars, runVars, pageVars, monitorOptions, createdTables,
                  costMonitoringName, published, calls, lastCall >>

\* a compilation with two instances; the second one with any options
PackageInit ==
  /\ QueryIdle /\ DashIdle /\ RunIdle /\ PageIdle
  /\ monitorOptions \in
       { [costMonitor  |-> [schema |-> << "analytics" >>, useExistingDataset |-> TRUE],
          otherMonitor |-> [schema |-> << "analytics" >>, useExistingDataset |-> b]] :
         b \in BOOLEAN }
  /\ createdTables = [m \in Monitors |-> { }]
  /\ costMonitoringName = [m \in Monitors |-> DefaultTableNames.costMonitoring]
  /\ published = EmptyBag
  /\ clock = 0
  /\ calls = 0
  /\ lastCall = NULL

PackageNext ==
  \/ \E m \in Monitors, k \in DOMAIN Kinds : \E opts \in CallOptions(Kinds[k]) :
        Create(m, Kinds[k], opts)
  \/ \E m \in Monitors : \E opts \in CallOptions("all") : CreateAllTables(m, opts)
  \/ ClockTick

SpecPackage == PackageInit /\ [][PackageNext]_vars

(***************************************************************************)
(* The dashboard: the cost files of the runs, GET /api/costs/:projectId of *)
(* the server, and loadCostData, selectProject, loadProjectData,           *)
(* updateDashboard, updateCharts and resetCharts of the page               *)
(***************************************************************************)
MaxRuns == 2                       \* project runs that write to the output directory
MaxRequests == 2                   \* selections of a project on the page

\* two project ids, the second an extension of the first
ProjectA == << MonitoredProject >>
ProjectB == << MonitoredProject, "-eu" >>
PageProjects == { ProjectA, ProjectB }

\* `${project.id}_costs_` and `${projectId}_costs_`
CostFilePrefix(projectId) == projectId \o << "_costs_" >>

\* moment().format('YYYY-MM-DD_HH-mm-ss'): the local time to the second, of
\* fixed width, so that the texts are ordered as the local times are
Timestamp(t, offset) == t + offset

\* the rows that the cost query of the n-th run returns for a project
PageRows(projectId, n, empty) ==
  IF empty THEN << >> ELSE << [project_id |-> projectId, query_count |-> n] >>

\* the cost file of a project: its name up to the stamp, the stamp, the order
\* of writing, whether the text is complete JSON, and the rows it holds
CostFile(projectId, stamp, mtime, complete, rows) ==
  [name |-> CostFilePrefix(projectId), stamp |-> stamp, mtime |-> mtime,
   complete |-> complete, rows |-> IF complete THEN rows ELSE << >>]

\* fs.writeJson(outputPath, costRows): a file of the same path is replaced
WriteJson(dir, file) ==
  { f \in dir : f.name # file.name \/ f.stamp # file.stamp } \cup { file }

\* string.startsWith(prefix), on the part of the file name before the stamp
HasPrefix(name, prefix) ==
  /\ Len(prefix) <= Len(name)
  /\ SubSeq(name, 1, Len(prefix)) = prefix

\* variant: the latest file by the time it was written
LatestFileWritten(files) ==
  CHOOSE f \in files : \A g \in files : g.mtime <= f.mtime

\* files.sort().reverse()[0] over the files of one prefix: the greatest name
LatestFile(files) ==
  CHOOSE f \in files : \A g \in files : g.stamp <= f.stamp

\* app.get('/api/costs/:projectId'): the response
GetCosts(projectId, dir, readOk) ==
  LET files == { f \in dir : HasPrefix(f.name, CostFilePrefix(projectId)) }
  IN  IF ~readOk THEN [status |-> 500, error |-> "Failed to load cost data"]
      ELSE IF files = { }
      THEN [status |-> 404, error |-> "No cost data found for this project"]
      ELSE IF LatestFile(files).complete
      THEN [status |-> 200, body |-> LatestFile(files).rows]
      ELSE [status |-> 500, error |-> "Failed to load cost data"]

\* what fetch gives loadCostData: the response, or a rejection (status 0)
Fates == { "answered", "read error", "network failure" }
Fetch(projectId, dir, fate) ==
  IF fate = "network failure" THEN [status |-> 0, error |-> "Failed to fetch"]
  ELSE GetCosts(projectId, dir, fate = "answered")

\* loadCostData(projectId) on the outcome of its fetch
LoadCostData(projectId, response) ==
  IF response.status = 0
  THEN [success |-> FALSE, data |-> << >>,
        error |-> [text |-> "Error loading cost data: ", detail |-> << response.error >>]]
  ELSE IF response.status # 200
  THEN [success |-> FALSE, data |-> << >>,
        error |-> [text |-> "No cost data available for project ", detail |-> projectId]]
  ELSE [success |-> TRUE, data |-> response.body]

\* the handles and the Chart objects as the chart module sees them
ChartState == [handles |-> chartHandles, objects |-> chartObjects]

\* update<Name>Chart: update() on the Chart of the handle, or new Chart(ctx, ...)
UpdateChart(st, c, data) ==
  IF ~IsNull(st.handles[c])
  THEN LET k == st.handles[c][1]
       IN  [st EXCEPT !.objects[k] =
              [@ EXCEPT !.misused = @ \/ st.objects[k].destroyed]]
  ELSE [handles |-> [st.handles EXCEPT ![c] = Some(Len(st.objects) + 1)],
        objects |-> Append(st.objects,
                      [canvas |-> c, destroyed |-> FALSE, misused |-> FALSE])]

\* updateCharts(data)
UpdateCharts(st, data) ==
  UpdateChart(UpdateChart(UpdateChart(st, "costTrendChart", data),
                          "userCostChart", data),
              "cacheHitChart", data)

\* variant: the handle keeps the destroyed Chart
ResetHandleKept(h) == h

\* <name>Chart = null
ResetHandle(h) == NULL

\* if (chart) { chart.destroy(); chart = null; }
ResetChart(st, c) ==
  IF ~IsNull(st.handles[c])
  THEN [handles |-> [st.handles EXCEPT ![c] = ResetHandle(@)],
        objects |-> [st.objects EXCEPT ![st.handles[c][1]].destroyed = TRUE]]
  ELSE st

\* resetCharts()
ResetCharts(st) ==
  ResetChart(ResetChart(ResetChart(st, "costTrendChart"), "userCostChart"),
             "cacheHitChart")

\* showEmptyState(elements, message, resetCharts, showSampleData)
ShowEmptyState(message) ==
  /\ emptyState' = Some(message)
  /\ chartHandles' = ResetCharts(ChartState).handles
  /\ chartObjects' = ResetCharts(ChartState).objects

\* updateDashboard() over the rows data
UpdateDashboardWith(data) ==
  IF Len(data) = 0
  THEN ShowEmptyState([text |-> "No cost data available for this project yet.",
                       detail |-> << >>])
  ELSE /\ emptyState' = NULL
       /\ chartHandles' = UpdateCharts(ChartState, data).handles
       /\ chartObjects' = UpdateCharts(ChartState, data).objects

\* monitorProject of a run for one project, a second after the run before:
\* the query, the file, the log
MonitorWrites(projectId, outcome, empty) ==
  /\ Len(runLog) < MaxRuns
  /\ serverTime' = serverTime + 1
  /\ LET rows == PageRows(projectId, Len(runLog) + 1, empty)
         file == CostFile(projectId, Timestamp(serverTime', utcOffset),
                          Len(runLog) + 1, outcome = "ok", rows)
     IN  /\ outputDir' = IF outcome \in { "ok", "write torn" }
                         THEN WriteJson(outputDir, file) ELSE outputDir
         /\ runLog' = Append(runLog, [project |-> projectId, ok |-> outcome = "ok",
                                      rows |-> IF outcome = "ok" THEN rows ELSE << >>])
  /\ UNCHANGED << queryVars, dashVars, pkgVars, runInput, nextProject, results, issued,
                  finish, utcOffset, served, currentProject, pending, requests,
                  latestRequest, lastLoad, emptyState, chartHandles, chartObjects >>

\* summer time ends on the machine of the monitor: local time falls back
SummerTimeEnds ==
  /\ utcOffset = SecondsPerHour
  /\ utcOffset' = 0
  /\ UNCHANGED << queryVars, dashVars, runVars, pkgVars, serverTime, runLog, served,
                  currentProject, pending, requests, latestRequest, lastLoad,
                  emptyState, chartHandles, chartObjects >>

\* a request GET /api/costs/:projectId is answered
ServeCosts(projectId, readOk) ==
  /\ served' = Some([project |-> projectId,
                     response |-> GetCosts(projectId, outputDir, readOk)])
  /\ UNCHANGED << queryVars, dashVars, runVars, pkgVars, serverTime, utcOffset, runLog,
                  currentProject, pending, requests, latestRequest, lastLoad,
                  emptyState, chartHandles, chartObjects >>

\* selectProject(project): the project becomes the current one and
\* loadProjectData sends its request, which the server answers
SelectProject(projectId, fate) ==
  /\ requests < MaxRequests
  /\ LET request == [id |-> requests + 1, project |-> projectId,
                     response |-> Fetch(projectId, outputDir, fate)]
     IN  /\ pending' = pending \cup { request }
         /\ latestRequest' = Some(request)
  /\ currentProject' = Some(projectId)
  /\ requests' = requests + 1
  /\ UNCHANGED << queryVars, dashVars, runVars, pkgVars, serverTime, utcOffset, runLog,
                  served, lastLoad, emptyState, chartHandles, chartObjects >>

\* loadProjectData after its await: the outcome of a request arrives
LoadProjectData(id) ==
  /\ \E r \in pending : r.id = id
  /\ LET request == CHOOSE r \in pending : r.id = id
         loaded  == LoadCostData(request.project, request.response)
     IN  /\ pending' = pending \ { request }
         /\ lastLoad' = Some([response |-> request.response, result |-> loaded])
         /\ IF ~loaded.success
            THEN /\ ShowEmptyState(loaded.error)
                 /\ UNCHANGED costData
            ELSE /\ costData' = loaded.data
                 /\ UpdateDashboardWith(loaded.data)
  /\ UNCHANGED << queryVars, runVars, pkgVars, userCostChart, cacheHitChart, serverTime,
                  utcOffset, runLog, served, currentProject, requests, latestRequest >>

\* a period button: updateActivePeriod(period) and updateDashboard()
ChangePeriod ==
  /\ UpdateDashboardWith(costData)
  /\ UNCHANGED << queryVars, dashVars, runVars, pkgVars, serverTime, utcOffset, runLog,
                  served, currentProject, pending, requests, latestRequest, lastLoad >>

\* the output directory and the server before any run
ServerInit == QueryIdle /\ DashIdle /\ RunIdle /\ PackageIdle /\ PageIdle

ServerNext ==
  \/ \E p \in PageProjects, outcome \in Outcomes, empty \in BOOLEAN :
        MonitorWrites(p, outcome, empty)
  \/ SummerTimeEnds
  \/ \E p \in PageProjects, readOk \in BOOLEAN : ServeCosts(p, readOk)

SpecServer == ServerInit /\ [][ServerNext]_vars

\* output directories that the page may meet: empty; a file of each project;
\* a truncated file of the first project and a file without rows of the second
PageDirectories ==
  { { },
    { CostFile(ProjectA, 1, 1, TRUE, PageRows(ProjectA, 1, FALSE)),
      CostFile(ProjectB, 2, 2, TRUE, PageRows(ProjectB, 2, FALSE)) },
    { CostFile(ProjectA, 1, 1, FALSE, << >>),
      CostFile(ProjectB, 2, 2, TRUE, PageRows(ProjectB, 2, TRUE)) } }

\* the page is opened while the output directory is one of PageDirectories
PageInit ==
  /\ QueryIdle /\ DashIdle /\ PackageIdle
  /\ runInput = [entry |-> "none", method |-> "none",
                 historyDays |-> << NULL, NULL, DefaultHistoryDays >>,
                 costPerTerabyte |-> << NULL, NULL, DefaultCostPerTB >>]
  /\ nextProject = 1 /\ results = << >> /\ issued = << >> /\ finish = NULL
  /\ outputDir \in PageDirectories
  /\ serverTime = 0 /\ utcOffset = SecondsPerHour /\ runLog = << >> /\ served = NULL
  /\ currentProject = NULL /\ pending = { } /\ requests = 0
  /\ latestRequest = NULL /\ lastLoad = NULL /\ emptyState = NULL
  /\ chartHandles = [c \in ChartNames |-> NULL]
  /\ chartObjects = << >>

PageNext ==
  \/ \E p \in PageProjects, fate \in Fates : SelectProject(p, fate)
  \/ \E id \in 1..MaxRequests : LoadProjectData(id)
  \/ ChangePeriod

SpecPage == PageInit /\ [][PageNext]_vars

(***************************************************************************)
(* What the claims speak about                                             *)
(***************************************************************************)
Ran == ~IsNull(result)
Data == result[1].data
Rows == Range(Data)
Records == JobStats(jobs)                \* the query records of the run
WithTables == { j \in Records : Len(j.referenced_tables) > 0 }
RecordsOf(r) == { j \in Records : KeyOf(j) = RowKey(r) }
Abs(n) == IF n >= 0 THEN n ELSE 0 - n

\* the tables and datasets that the records of the actor-day of row r reference
TablesOf(r) == UNION { Range(j.referenced_tables) : j \in RecordsOf(r) }
DatasetsOf(r) == UNION { ReferencedDatasets(j) : j \in RecordsOf(r) }

(***************************************************************************)
(* C1  Conservation: the per-table shares of every record that references  *)
(* a table sum to the record's bytes_billed, and to its bytes_processed,   *)
(* within one unit; so do the table rows of an actor-day whose table_costs *)
(* list holds all its tables.                                              *)
(***************************************************************************)
C1_Conservation ==
  Ran =>
    LET U == UnnestTables(Records)
    IN  /\ \A j \in WithTables :
             LET mine == { u \in U : u.js = j }
             IN  /\ Abs(SumOver([u \in mine |-> BytesShare(u.js.total_bytes_billed, u.js)],
                                mine)
                        - j.total_bytes_billed * ShareDen) <= ShareDen
                 /\ Abs(SumOver([u \in mine |-> BytesShare(u.js.total_bytes_processed, u.js)],
                                mine)
                        - j.total_bytes_processed * ShareDen) <= ShareDen
        /\ \A r \in Rows :
             (~IsNull(r.table_costs) /\ Len(r.table_costs[1]) < TableLimit) =>
               LET with == RecordsOf(r) \cap WithTables
                   tc   == r.table_costs[1]
               IN  Abs(SumSeq([i \in 1..Len(tc) |-> tc[i].bytes_billed])
                       - ShareDen * SumOver([j \in with |-> j.total_bytes_billed], with))
                     <= ShareDen * Cardinality(with)

\* a run over a record whose bytes do not divide by the number of its tables
C1_Witness ==
  /\ Ran
  /\ \E j \in WithTables :
       /\ Len(j.referenced_tables) >= 3
       /\ j.total_bytes_billed % Len(j.referenced_tables) # 0

(***************************************************************************)
(* C2  Rebuild classification.  As claimed: a table of an actor-day is     *)
(* flagged is_rebuild exactly when a record of that actor-day references   *)
(* it and has it as its destination_table.                                 *)
(***************************************************************************)
C2_RebuildByEquality ==
  Ran =>
    \A r \in Rows :
      ~IsNull(r.table_costs) =>
        \A i \in 1..Len(r.table_costs[1]) :
          LET e == r.table_costs[1][i]
          IN  e.is_rebuild_operation <=>
                \E j \in RecordsOf(r) :
                  /\ e.table_name \in Range(j.referenced_tables)
                  /\ j.destination_table = Some(e.table_name)

\* C2 as amended: the destination is compared by dataset_id and table_id
\* only, so that a table of the same name in another project counts
C2_RebuildByName ==
  Ran =>
    \A r \in Rows :
      ~IsNull(r.table_costs) =>
        \A i \in 1..Len(r.table_costs[1]) :
          LET e == r.table_costs[1][i]
          IN  /\ e.is_rebuild_operation <=>
                   \E j \in RecordsOf(r) :
                     /\ e.table_name \in Range(j.referenced_tables)
                     /\ ~IsNull(j.destination_table)
                     /\ j.destination_table[1].dataset_id = e.table_name.dataset_id
                     /\ j.destination_table[1].table_id = e.table_name.table_id
              /\ e.rebuild_count = (IF e.is_rebuild_operation THEN 1 ELSE 0)

\* a run with a table flagged as rebuilt next to a table that is not, and a
\* table flagged because of a destination in another project
C2_Witness ==
  /\ Ran
  /\ \E r \in Rows :
       /\ ~IsNull(r.table_costs)
       /\ \E i, k \in 1..Len(r.table_costs[1]) :
            /\ r.table_costs[1][i].is_rebuild_operation
            /\ ~r.table_costs[1][k].is_rebuild_operation
  /\ \E r \in Rows :
       /\ ~IsNull(r.table_costs)
       /\ \E i \in 1..Len(r.table_costs[1]) :
            /\ r.table_costs[1][i].is_rebuild_operation
            /\ \A j \in RecordsOf(r) :
                 j.destination_table # Some(r.table_costs[1][i].table_name)

(***************************************************************************)
(* C3  Weighted cache-hit percentage: a bucket that merges several buckets *)
(* reports 100 * sum(cache_hit_count) / sum(query_count); here for the     *)
(* actor-day rows of the run and for the rows of the daily summary view.   *)
(***************************************************************************)
Weighted(hits, count) == Some(RoundDiv(hits * 100 * 100, count))

C3_WeightedCacheHit ==
  /\ Ran =>
       \A r \in Rows :
         r.cache_hit_percentage =
           Weighted(Cardinality({ j \in RecordsOf(r) : j.cache_hit }),
                    Cardinality(RecordsOf(r)))
  /\ ~IsNull(costTable) =>
       \A v \in DailySummaryView(costTable[1]) :
         v.avg_cache_hit_percentage = Weighted(v.total_cache_hits, v.total_queries)

(***************************************************************************)
(* C4  Grouping key: the run emits exactly one summary per distinct (date, *)
(* project, actor email, service-account flag) of its query records, no    *)
(* two summaries share the key, and the query_count values sum to the      *)
(* number of records.                                                      *)
(***************************************************************************)
ClaimKey(date, project, email) ==
  << date, project, email, EndsWith(email, ".gserviceaccount.com")
                             \/ StartsWith(email, "service-") >>
ClaimKeyOfRow(r) ==
  << r.date, r.project_id, r.user_email, ~IsNull(r.service_account) >>

C4_GroupingKey ==
  Ran =>
    /\ { ClaimKeyOfRow(r) : r \in Rows }
         = { ClaimKey(j.creation_time \div SecondsPerDay, j.project_id, j.user_email) :
             j \in Records }
    /\ \A i, k \in 1..Len(Data) : ClaimKeyOfRow(Data[i]) = ClaimKeyOfRow(Data[k]) => i = k
    /\ SumSeq([i \in 1..Len(Data) |-> Data[i].query_count]) = Cardinality(Records)
    /\ \A r \in Rows :
         r.query_count = Cardinality({ j \in Records :
           ClaimKey(j.creation_time \div SecondsPerDay, j.project_id, j.user_email)
             = ClaimKeyOfRow(r) })

\* a run with several summaries, one of them over several records, one actor
\* on two dates
C4_Witness ==
  /\ Ran
  /\ \E r \in Rows : r.query_count >= 2
  /\ \E r1, r2 \in Rows : r1.user_email = r2.user_email /\ r1.date # r2.date

NonIncreasing(s) == \A i \in 1..(Len(s) - 1) : s[i] >= s[i + 1]
Column(arr, field) == [i \in 1..Len(arr) |-> arr[i][field]]

C6_TopHundredTables ==
  Ran =>
    LET TC == TableCosts(Records, DefaultCostPerTB)
    IN  \A r \in Rows :
          ~IsNull(r.table_costs) =>
            LET tc     == r.table_costs[1]
                listed == Range(Column(tc, "table_name"))
                mine   == Matching(TC, r)
            IN  /\ NonIncreasing(Column(tc, "table_cost_usd"))
                /\ Len(tc) <= TableLimit
                /\ Len(tc) = Min(Cardinality(TablesOf(r)), TableLimit)
                /\ Cardinality(listed) = Len(tc)
                /\ listed \subseteq TablesOf(r)
                /\ \A i \in 1..Len(tc) :
                     \E m \in mine : /\ m.table_name = tc[i].table_name
                                     /\ m.table_cost_usd = tc[i].table_cost_usd
                /\ \A m \in mine :
                     m.table_name \notin listed =>
                       \A i \in 1..Len(tc) : m.table_cost_usd <= tc[i].table_cost_usd

\* a summary of an actor-day with more than 100 tables of unequal cost
C6_Witness ==
  /\ Ran
  /\ \E r \in Rows :
       /\ ~IsNull(r.table_costs)
       /\ Cardinality(TablesOf(r)) > TableLimit
       /\ Len(r.table_costs[1]) = TableLimit
       /\ r.table_costs[1][1].table_cost_usd > r.table_costs[1][TableLimit].table_cost_usd

(***************************************************************************)
(* C7  recent_queries: the list of every summary holds only queries of the *)
(* summary's (date, project, actor), newest first, at most 100 of them,    *)
(* and every query of the actor-day that is left out is no newer than the  *)
(* oldest listed one.                                                      *)
(***************************************************************************)
C7_RecentQueries ==
  Ran =>
    \A r \in Rows :
      ~IsNull(r.recent_queries) =>
        LET rq     == r.recent_queries[1]
            listed == Range(Column(rq, "job_id"))
        IN  /\ NonIncreasing(Column(rq, "timestamp"))
            /\ Len(rq) <= QueryLimit
            /\ Len(rq) = Min(Cardinality(RecordsOf(r)), QueryLimit)
            /\ Cardinality(listed) = Len(rq)
            /\ \A i \in 1..Len(rq) :
                 \E j \in Records :
                   /\ j.job_id = rq[i].job_id
                   /\ j.creation_time = rq[i].timestamp
                   /\ j.creation_time \div SecondsPerDay = r.date
                   /\ j.project_id = r.project_id
                   /\ j.user_email = r.user_email
            /\ \A j \in RecordsOf(r) :
                 j.job_id \notin listed =>
                   \A i \in 1..Len(rq) : j.creation_time <= rq[i].timestamp

\* a summary of an actor-day with more than 100 queries at different times
C7_Witness ==
  /\ Ran
  /\ \E r \in Rows :
       /\ ~IsNull(r.recent_queries)
       /\ r.query_count > QueryLimit
       /\ Len(r.recent_queries[1]) = QueryLimit
       /\ r.recent_queries[1][1].timestamp > r.recent_queries[1][QueryLimit].timestamp

(***************************************************************************)
(* C8  Rounding only at output: every reported cost is the rounding to 2   *)
(* decimals of the cost of the exactly accumulated bytes_billed; for a     *)
(* summary, for each of its dataset and table entries, and for the total   *)
(* of the run.                                                             *)
(***************************************************************************)
C8_RoundedAtOutput ==
  Ran =>
    /\ \A r \in Rows :
         /\ r.estimated_cost_usd = CostUsd(r.total_bytes_billed, 1, DefaultCostPerTB)
         /\ ~IsNull(r.table_costs) =>
              \A i \in 1..Len(r.table_costs[1]) :
                r.table_costs[1][i].table_cost_usd
                  = CostUsd(r.table_costs[1][i].bytes_billed, ShareDen, DefaultCostPerTB)
         /\ ~IsNull(r.dataset_costs) =>
              \A i \in 1..Len(r.dataset_costs[1]) :
                r.dataset_costs[1][i].dataset_cost_usd
                  = CostUsd(r.dataset_costs[1][i].bytes_billed, ShareDen, DefaultCostPerTB)
    /\ result[1].totalCost
         = CostUsd(SumOver([j \in Records |-> j.total_bytes_billed], Records),
                   1, DefaultCostPerTB)

C10_EmptyRefsFrame ==
  Ran =>
    LET TC0 == TableCosts(WithTables, DefaultCostPerTB)
        DC0 == DatasetCosts(TC0)
    IN  \A r \in Rows :
          LET all == RecordsOf(r)
          IN  /\ r.query_count = Cardinality(all)
              /\ r.cache_hit_count = Cardinality({ j \in all : j.cache_hit })
              /\ r.error_count = Cardinality({ j \in all : j.error_result # NULL })
              /\ r.total_bytes_processed
                   = SumOver([j \in all |-> j.total_bytes_processed], all)
              /\ r.total_bytes_billed = SumOver([j \in all |-> j.total_bytes_billed], all)
              /\ r.slot_hours = SumOver([j \in all |-> j.total_slot_ms], all)
              /\ \E tie \in TieBreaks :
                   /\ r.table_costs = Some(TableCostsArray(Matching(TC0, r), tie))
                   /\ r.dataset_costs = Some(DatasetCostsArray(Matching(DC0, r), tie))

\* a summary over a record without tables and a record with tables
C10_Witness ==
  /\ Ran
  /\ \E r \in Rows :
       /\ Len(r.table_costs[1]) > 0
       /\ \E j \in RecordsOf(r) : j.referenced_tables = << >>

(***************************************************************************)
(* C11  Identity classification: an actor is a service account exactly     *)
(* when its email ends with '.gserviceaccount.com' or begins with          *)
(* 'service-', any other actor is a human user, an empty or null email is  *)
(* a human user under the key "Unknown", and the class depends on nothing  *)
(* but the email.                                                          *)
(***************************************************************************)
\* the rule in the words of the claim, over a nullable email
MatchesServicePattern(email) ==
  /\ ~IsNull(email)
  /\ \/ EndsWith(email[1], ".gserviceaccount.com")
     \/ StartsWith(email[1], "service-")

ChartEntryOf(item) ==
  CHOOSE e \in Range(userCostChart[1]) : e.entity = EntityId(item)

C11_Classification ==
  ~IsNull(userCostChart) =>
    \A i \in DOMAIN costData :
      LET item == costData[i]
          e    == ChartEntryOf(item)
      IN  /\ \E x \in Range(userCostChart[1]) : x.entity = EntityId(item)
          /\ e.isServiceAccount <=> MatchesServicePattern(item.user_email)
          /\ e.type = (IF MatchesServicePattern(item.user_email)
                       THEN "Service Account" ELSE "User")
          /\ ~IsNull(item.service_account) <=> MatchesServicePattern(item.user_email)
          /\ (IsNull(item.user_email) \/ item.user_email = Some(EmptyEmail)) =>
                e.entity = Unknown /\ ~e.isServiceAccount
          /\ \A k \in DOMAIN costData :
                costData[k].user_email = item.user_email =>
                  ChartEntryOf(costData[k]).isServiceAccount = e.isServiceAccount

\* a chart over a service agent named by the prefix only and an actor
\* without email
C11_Witness ==
  /\ ~IsNull(userCostChart)
  /\ \E i, k \in DOMAIN costData :
        /\ costData[i].user_email = Some(ServiceAgent)
        /\ ChartEntryOf(costData[i]).isServiceAccount
        /\ IsNull(costData[k].user_email)
        /\ ChartEntryOf(costData[k]).entity = Unknown

(***************************************************************************)
(* C12  Zero-division safety: over rows whose query_count adds up to 0 the *)
(* cache hit percentage is computed without a division by zero and is the  *)
(* number 0, neither null nor NaN.                                         *)
(***************************************************************************)
C12_ZeroDivisionSafe ==
  ~IsNull(cacheHitChart) =>
    /\ cacheHitChart[1].cacheHitPercentage.den # 0
    /\ ReduceItems(costData, "query_count") = 0 =>
          /\ cacheHitChart[1].cacheHitPercentage.num = 0
          /\ cacheHitChart[1].nonCacheHitPercentage
               = Frac(100 * cacheHitChart[1].cacheHitPercentage.den,
                      cacheHitChart[1].cacheHitPercentage.den)

\* the chart drawn over a cost file without rows
C12_Witness ==
  /\ ~IsNull(cacheHitChart)
  /\ ReduceItems(costData, "query_count") = 0
  /\ cacheHitChart[1].cacheHitPercentage = Frac(0, 1)

(***************************************************************************)
(* C13  Failure isolation across projects: in runCostMonitoring and in     *)
(* monitorCosts the failure of one project never cancels the others: every *)
(* project that is not skipped gets exactly one entry, in the order of the *)
(* configuration, the entry of a failing project carries an error field    *)
(* and the entry of any other project its rows (whose cost file is in the  *)
(* output directory), and the run never ends before the last project has   *)
(* its entry; monitorCosts then answers 200 with one line per project.     *)
(***************************************************************************)
Monitored == SelectSeq(ConfigProjects, LAMBDA p : ~Skipped(p))
IsErrorEntry(e) == "error" \in DOMAIN e

C13_FailureIsolation ==
  /\ Len(results) <= Len(Monitored)
  /\ \A k \in DOMAIN results :
        /\ results[k].project = Monitored[k].id
        /\ IsErrorEntry(results[k]) <=> "data" \notin DOMAIN results[k]
        /\ ~IsErrorEntry(results[k]) =>
              [project |-> results[k].project, complete |-> TRUE,
               rows |-> results[k].data] \in outputDir
  /\ (~IsNull(finish) /\ MethodAllowed) =>
        /\ Len(results) = Len(Monitored)
        /\ runInput.entry = "function" =>
              /\ finish[1].status = "responded" /\ finish[1].code = 200
              /\ finish[1].projects = Len(Monitored)
              /\ \A k \in DOMAIN results :
                    finish[1].results[k].success = ~IsErrorEntry(results[k])

\* a run that returned its results although its first project failed, with
\* the rows of a later project
C13_Witness ==
  /\ ~IsNull(finish)
  /\ finish[1].status = "resolved"
  /\ Len(results) >= 2
  /\ IsErrorEntry(results[1])
  /\ ~IsErrorEntry(results[Len(results)])

(***************************************************************************)
(* C14  All-or-nothing per run: a run that aborts leaves no output; a cost *)
(* file is written only with the whole result of the project's query; a    *)
(* project run that failed leaves no cost file; every cost file holds the  *)
(* complete rows of one successful project run.                            *)
(***************************************************************************)
CostFilesOnDisk == { f \in outputDir : f.project # "summary" }

C14_AllOrNothing ==
  /\ \A f \in CostFilesOnDisk :
        /\ f.complete
        /\ \E k \in DOMAIN results :
              /\ ~IsErrorEntry(results[k])
              /\ results[k].project = f.project
              /\ results[k].data = f.rows
  /\ \A k \in DOMAIN results :
        IsErrorEntry(results[k]) =>
          ~\E f \in CostFilesOnDisk : f.project = results[k].project
  /\ (~IsNull(finish) /\ finish[1].status = "rejected") => outputDir = { }

(***************************************************************************)
(* C15  Configuration validation: a costPerTerabyte or historyDays that is *)
(* negative or zero, from the configuration, the environment or the        *)
(* options, is rejected before any query is issued.                        *)
(***************************************************************************)
InvalidGiven ==
  \E name \in { "historyDays", "costPerTerabyte" } :
    \/ \E k \in 1..2 : ~IsNull(runInput[name][k]) /\ runInput[name][k][1] <= 0
    \/ runInput[name][3] <= 0

C15_InvalidRejected ==
  /\ \A k \in DOMAIN issued :
        issued[k].historyDays > 0 /\ issued[k].costPerTerabyte > 0
  /\ InvalidGiven => issued = << >>

(***************************************************************************)
(* C16  A record that misses a required field (here: a failed job, which   *)
(* has no byte statistics) is excluded from every aggregate while the      *)
(* valid records are summarised, and the result of the run reports how     *)
(* many records were skipped.                                              *)
(***************************************************************************)
MissingBytes(j) == ~IsNull(j.error_result)
ResultFields == { "project", "records", "totalCost", "totalBytesProcessed",
                  "totalQueries", "data", "params" }

C16_SkipMalformed ==
  (Ran /\ \E j \in Records : MissingBytes(j)) =>
    /\ \A r \in Rows :
          /\ r.query_count = Cardinality({ j \in RecordsOf(r) : ~MissingBytes(j) })
          /\ r.error_count = 0
    /\ \A j \in Records : ~MissingBytes(j) => \E r \in Rows : RowKey(r) = KeyOf(j)
    /\ DOMAIN result[1] \ ResultFields # { }

(***************************************************************************)
(* C17  Determinism: another run over the same records of the JOBS view    *)
(* with the same parameters returns the same rows in the same order, with  *)
(* the same order inside every nested list, whatever order the engine      *)
(* gives to rows that ORDER BY leaves equal and whenever the run happens.   *)
(***************************************************************************)
RunTimes == { RunTime, RunTime + DefaultHistoryDays * SecondsPerDay }

C17_Deterministic ==
  Ran =>
    \A tie \in TieBreaks, now \in RunTimes :
      QueryResult(CostQueryAt(jobs, now, DefaultHistoryDays, DefaultCostPerTB, tie)) = Data

(***************************************************************************)
(* C18  Stable ties: entries of table_costs, and of dataset_costs, that    *)
(* have the same cost stand in the order in which the records of the       *)
(* actor-day first reference them.                                         *)
(***************************************************************************)
\* where the records of row r first reference a table that satisfies P
FirstSeen(r, P(_)) ==
  LET at == { j.job_id * (WideLen + 1) + p :
                << j, p >> \in { << j, p >> \in RecordsOf(r) \X (1..WideLen) :
                                  /\ p <= Len(j.referenced_tables)
                                  /\ P(j.referenced_tables[p]) } }
  IN  CHOOSE n \in at : \A m \in at : n <= m

C18_StableTies ==
  Ran =>
    \A r \in Rows :
      /\ \A i, k \in DOMAIN r.table_costs[1] :
            LET a == r.table_costs[1][i]
                b == r.table_costs[1][k]
            IN  (i < k /\ a.table_cost_usd = b.table_cost_usd) =>
                  FirstSeen(r, LAMBDA t : t = a.table_name)
                    < FirstSeen(r, LAMBDA t : t = b.table_name)
      /\ \A i, k \in DOMAIN r.dataset_costs[1] :
            LET a == r.dataset_costs[1][i]
                b == r.dataset_costs[1][k]
            IN  (i < k /\ a.dataset_cost_usd = b.dataset_cost_usd) =>
                  FirstSeen(r, LAMBDA t : DatasetName(t.project_id, t.dataset_id) = a.dataset)
                    < FirstSeen(r, LAMBDA t : DatasetName(t.project_id, t.dataset_id) = b.dataset)

(***************************************************************************)
(* C19  Partition equivalence: when the records are split in two parts     *)
(* that share no (date, project) pair, the rows of the query over the one  *)
(* part together with the rows of the query over the other part are the    *)
(* rows of the query over all records, field by field (under the order     *)
(* that the engine of the run gives to equal entries).                     *)
(***************************************************************************)
\* the jobs whose (date, project) pair is in the set pairs
JobsOfPairs(pairs) ==
  SelectSeq(jobs, LAMBDA j : << DateOf(j.creation_time), j.project_id >> \in pairs)
AllPairs == { << DateOf(j.creation_time), j.project_id >> : j \in Range(jobs) }
RowsOver(J, tie) == Range(QueryResult(CostQuery(J, DefaultCostPerTB, tie)))
\* the splits in two parts that are not empty, each named once, by the part
\* that holds the first day
Splits ==
  { part \in SUBSET AllPairs :
      /\ part # AllPairs
      /\ \E p \in part : \A q \in AllPairs : p[1] <= q[1] }

C19_PartitionEquivalence ==
  Ran =>
    \A part \in Splits :
      \E tie \in TieBreaks :
        RowsOver(JobsOfPairs(part), tie) \cup RowsOver(JobsOfPairs(AllPairs \ part), tie)
          = Rows

\* a run over the jobs of one actor with tables on two days
C19_Witness ==
  /\ Ran
  /\ Cardinality(AllPairs) = 2
  /\ \E r1, r2 \in Rows :
        /\ r1.date # r2.date
        /\ r1.user_email = r2.user_email
        /\ Len(r1.table_costs[1]) > 0
        /\ Len(r2.table_costs[1]) > 0
        /\ \A part \in Splits :
              \E tie \in TieBreaks :
                RowsOver(JobsOfPairs(part), tie)
                  \cup RowsOver(JobsOfPairs(AllPairs \ part), tie) = Rows

(***************************************************************************)
(* C20  The worked scenario: an actor-day with exactly three records,      *)
(* (1 TiB billed, references A and B, destination A), (nothing billed, no  *)
(* reference, cache hit) and (half a TiB billed, references A), at 5.00    *)
(* USD per TiB, has query_count 3, total_bytes_billed 1.5 TiB,             *)
(* estimated_cost_usd 7.50, cache_hit_percentage 33.33, a dataset cost of  *)
(* 5.00 for the dataset of A and of 2.50 for the dataset of B, and A is    *)
(* flagged as rebuilt.                                                     *)
(***************************************************************************)
ShapeOf(j) == [f \in DOMAIN CachedShape |-> j[f]]
IsScenario(r) ==
  /\ Cardinality(RecordsOf(r)) = 3
  /\ { ShapeOf(j) : j \in RecordsOf(r) } = { MergeShape, CachedShape, HalfShape }

C20_Scenario ==
  Ran =>
    \A r \in Rows :
      IsScenario(r) =>
        /\ r.query_count = 3
        /\ r.total_bytes_billed = TebiUnits + TebiUnits \div 2
        /\ r.estimated_cost_usd = 750
        /\ r.cache_hit_percentage = Some(3333)
        /\ { << d.dataset, d.dataset_cost_usd >> : d \in Range(r.dataset_costs[1]) }
             = { << DatasetName(TableA.project_id, TableA.dataset_id), 500 >>,
                 << DatasetName(TableB.project_id, TableB.dataset_id), 250 >> }
        /\ \E tc \in Range(r.table_costs[1]) :
              /\ tc.table_name = TableA
              /\ tc.is_rebuild_operation
              /\ tc.table_cost_usd = 500

C20_Witness ==
  /\ Ran
  /\ \E r \in Rows : IsScenario(r) /\ r.estimated_cost_usd = 750

(***************************************************************************)
(* C21  The table-level split is authoritative: for every actor-day and    *)
(* dataset, the bytes_billed and bytes_processed of the dataset entry are  *)
(* the sum, over the records of the actor-day, of the 1/N shares of the    *)
(* record's referenced tables that lie in the dataset; in the rows of the  *)
(* cost query and in the rows of the Dataform cost monitoring table.       *)
(***************************************************************************)
\* the table-level share of dataset d in the records of key k, over ShareDen
TableSplit(k, d, field) ==
  LET U == { u \in UnnestTables({ j \in Records : KeyOf(j) = k }) :
               DatasetName(u.table_detail.project_id, u.table_detail.dataset_id) = d }
  IN  SumOver([u \in U |-> BytesShare(u.js[field], u.js)], U)

C21_TableSplitAuthoritative ==
  /\ Ran =>
       \A r \in Rows : \A d \in Range(r.dataset_costs[1]) :
         /\ d.bytes_billed = TableSplit(RowKey(r), d.dataset, "total_bytes_billed")
         /\ d.bytes_processed = TableSplit(RowKey(r), d.dataset, "total_bytes_processed")
  /\ ~IsNull(costTable) =>
       \A r \in costTable[1] : \A d \in Range(r.dataset_costs[1]) :
         /\ d.bytes_billed * ShareDen
              = TableSplit(RowKey(r), d.dataset, "total_bytes_billed") * DatasetShareDen
         /\ d.bytes_processed * ShareDen
              = TableSplit(RowKey(r), d.dataset, "total_bytes_processed") * DatasetShareDen

\* the share of the bytes billed of the unnested records U that falls on table t
TableBilled(U, t) ==
  LET mine == { u \in U : u.table_detail = t }
  IN  SumOver([u \in mine |-> BytesShare(u.js.total_bytes_billed, u.js)], mine)

\* record j is a rebuild query of table t: it reads t and writes a destination
\* of t's dataset_id and table_id
Rebuilds(j, t) ==
  /\ t \in Range(j.referenced_tables)
  /\ ~IsNull(j.destination_table)
  /\ j.destination_table[1].dataset_id = t.dataset_id
  /\ j.destination_table[1].table_id = t.table_id

(***************************************************************************)
(* C27  Rebuild/incremental partition: in every table_costs entry          *)
(* rebuild_cost_usd + incremental_cost_usd = table_cost_usd, at most one   *)
(* of the two is non-zero, and rebuild_count is 1 exactly when             *)
(* is_rebuild_operation and 0 otherwise; the entry of a table with a       *)
(* rebuild query covers every query of the actor-day on that table, so     *)
(* that the whole day cost of the table is rebuild cost.                   *)
(***************************************************************************)
C27_RebuildPartition ==
  Ran =>
    \A r \in Rows :
      ~IsNull(r.table_costs) =>
        LET recs == RecordsOf(r)
            U    == UnnestTables(recs)
        IN  \A i \in 1..Len(r.table_costs[1]) :
              LET e == r.table_costs[1][i]
              IN  /\ e.rebuild_cost_usd + e.incremental_cost_usd = e.table_cost_usd
                  /\ e.rebuild_cost_usd = 0 \/ e.incremental_cost_usd = 0
                  /\ e.rebuild_count = (IF e.is_rebuild_operation THEN 1 ELSE 0)
                  /\ (\E j \in recs : Rebuilds(j, e.table_name))
                       => /\ e.rebuild_cost_usd = e.table_cost_usd
                          /\ e.incremental_cost_usd = 0
                          /\ e.bytes_billed = TableBilled(U, e.table_name)

\* an actor-day with a rebuild query and a query that only reads the same
\* table: the table's cost is positive and all of it is rebuild cost; another
\* entry of some row carries incremental cost
C27_Witness ==
  /\ Ran
  /\ \E r \in Rows :
       /\ ~IsNull(r.table_costs)
       /\ \E i \in 1..Len(r.table_costs[1]) :
            LET e == r.table_costs[1][i]
            IN  /\ e.rebuild_cost_usd > 0
                /\ e.rebuild_cost_usd = e.table_cost_usd
                /\ \E j, k \in RecordsOf(r) :
                     /\ Rebuilds(j, e.table_name) /\ ~IsTableRebuild(k)
                     /\ e.table_name \in Range(k.referenced_tables)
                     /\ k.total_bytes_billed > 0
  /\ \E r \in Rows :
       /\ ~IsNull(r.table_costs)
       /\ \E i \in 1..Len(r.table_costs[1]) : r.table_costs[1][i].incremental_cost_usd > 0

(***************************************************************************)
(* C28  Time breakdowns against the daily totals: hourly_breakdown of a    *)
(* row has at most 24 entries, their hour_of_day pairwise distinct and     *)
(* ascending, and their query counts sum to the row's query_count;         *)
(* daily_breakdown has exactly one entry, for the day of the week of the   *)
(* row's date, and its query count is the row's query_count.               *)
(***************************************************************************)
C28_TimeBreakdowns ==
  Ran =>
    \A r \in Rows :
      /\ ~IsNull(r.hourly_breakdown)
      /\ LET h == r.hourly_breakdown[1]
         IN  /\ Len(h) >= 1 /\ Len(h) <= 24
             /\ \A i \in 1..Len(h) : h[i].hour_of_day \in 0..23
             /\ \A i \in 1..(Len(h) - 1) : h[i].hour_of_day < h[i + 1].hour_of_day
             /\ SumSeq([i \in 1..Len(h) |-> h[i].hourly_queries]) = r.query_count
      /\ ~IsNull(r.daily_breakdown)
      /\ LET d == r.daily_breakdown[1]
         IN  /\ Len(d) = 1
             /\ d[1].day_of_week = DayOfWeek(r.date * SecondsPerDay)
             /\ d[1].daily_queries = r.query_count

\* a row of the second day whose queries fall into two hours
C28_Witness ==
  /\ Ran
  /\ \E r \in Rows :
       /\ r.date = 1
       /\ ~IsNull(r.hourly_breakdown)
       /\ Len(r.hourly_breakdown[1]) = 2
       /\ r.hourly_breakdown[1][1].hourly_queries > r.hourly_breakdown[1][2].hourly_queries
       /\ r.query_count = BurstLen
       /\ r.daily_breakdown[1][1].day_of_week = 2

Enabled == SelectSeq(ConfigProjects, LAMBDA p : ~p.disabled)

(***************************************************************************)
(* C26  Shape of the result list: the entries are those of the configured  *)
(* projects that are not marked disabled, one each and in the order of the *)
(* configuration; a disabled project is never queried; an entry has either *)
(* an error or the fields of a success, never both; a project is monitored *)
(* only when the one before it has its entry.  For both entry points.      *)
(***************************************************************************)
C26_ResultShape ==
  /\ Len(results) <= Len(Enabled)
  /\ \A k \in DOMAIN results :
        /\ k <= Len(Enabled) => results[k].project = Enabled[k].id
        /\ IsErrorEntry(results[k]) <=> { "records", "data" } \cap DOMAIN results[k] = { }
        /\ ~IsErrorEntry(results[k]) => { "records", "data" } \subseteq DOMAIN results[k]
  /\ Len(issued) = Len(results)
  /\ (~IsNull(finish) /\ MethodAllowed /\ finish[1].status # "rejected") =>
        Len(results) = Len(Enabled)

\* how often instance m asked Dataform to publish the table of the key
PublishedFor(m, key) ==
  LET mine == { r \in BagToSet(published) :
                  r.monitor = m /\ TableKey(r.schema, r.name) = key }
  IN  SumOver([r \in mine |-> CopiesIn(r, published)], mine)

(***************************************************************************)
(* C23  Tracking of created tables: over any sequence of create calls on   *)
(* one instance, Dataform's publish is invoked at most once per key        *)
(* 'schema.name'; a call for a key that is already created publishes       *)
(* nothing and returns { name }; the set of created keys only grows.       *)
(***************************************************************************)
C23_CreatedTracking ==
  [][ /\ \A m \in Monitors :
           /\ createdTables[m] \subseteq createdTables'[m]
           /\ \A key \in createdTables'[m] :
                /\ PublishedFor(m, key)' <= 1
                /\ key \in createdTables[m] => PublishedFor(m, key)' = PublishedFor(m, key)
      /\ (calls' # calls /\ lastCall'[1].kind # "all") =>
           LET c == lastCall'[1]
           IN  /\ c.key \in createdTables[c.monitor] <=> c.value = [name |-> c.name]
               /\ c.key \in createdTables[c.monitor] => published' = published
               /\ c.key \in createdTables'[c.monitor]
    ]_vars

\* createAllTables after createCostMonitoringTable with a name of its own:
\* the main table was skipped and returned { name }, the four others were
\* published, and every key of the instance was published once
C23_Witness ==
  /\ ~IsNull(lastCall)
  /\ lastCall[1].kind = "all"
  /\ lastCall[1].value.mainTable = [name |-> CustomName]
  /\ "declaration" \in DOMAIN lastCall[1].value.dailySummary
  /\ Cardinality(createdTables[lastCall[1].monitor]) = Len(Kinds)
  /\ \A key \in createdTables[lastCall[1].monitor] :
        PublishedFor(lastCall[1].monitor, key) = 1

(***************************************************************************)
(* C24  Unique action names: with useExistingDataset every call of publish *)
(* of the class gives Dataform an action name that no other publish call   *)
(* of the compilation gives, of the same instance or of another, in the    *)
(* same millisecond or not; the configured target is the schema and name   *)
(* that were requested.                                                    *)
(***************************************************************************)
C24_UniqueActionNames ==
  \A r \in BagToSet(published) :
    ~IsNull(r.action) =>
      /\ CopiesIn(r, published) = 1
      /\ \A q \in BagToSet(published) :
            (q # r /\ ~IsNull(q.action)) => q.action # r.action
      /\ TableKey(r.schema, r.name) \in createdTables[r.monitor]

NoCostFileOutcome(projectId) == LoadCostData(projectId, GetCosts(projectId, { }, TRUE))

(***************************************************************************)
(* C22  Source errors are a kind of their own: what the data loader of the *)
(* dashboard makes of 'no cost file exists' (the server answers 404)       *)
(* differs from what it makes of 'the data could not be loaded' (the       *)
(* server answers 500, or the request fails).                              *)
(***************************************************************************)
C22_DistinctErrorKind ==
  ~IsNull(lastLoad) =>
    LET l == lastLoad[1]
    IN  /\ l.result.success <=> l.response.status = 200
        /\ \A p \in PageProjects :
              l.result = NoCostFileOutcome(p) => l.response.status = 404

SuccessfulRuns(projectId) ==
  { k \in DOMAIN runLog : runLog[k].project = projectId /\ runLog[k].ok }

(***************************************************************************)
(* C25  The latest data is served: after any runs, GET                     *)
(* /api/costs/:projectId answers with the rows of the cost file that the   *)
(* most recent successful run of exactly that project wrote, and with 404  *)
(* if and only if no cost file of that project exists.                     *)
(***************************************************************************)
C25_LatestServed ==
  \A p \in PageProjects :
    LET response == GetCosts(p, outputDir, TRUE)
        good     == SuccessfulRuns(p)
    IN  /\ response.status = 404 <=>
             ~\E f \in outputDir : f.name = CostFilePrefix(p)
        /\ good # { } =>
             /\ response.status = 200
             /\ response.body = runLog[CHOOSE k \in good : \A i \in good : i <= k].rows

(***************************************************************************)
(* C29  The data on the page belongs to the selected project: once every   *)
(* outstanding request has completed, dashboardState.costData is the data  *)
(* that was served for currentProject, in whatever order the responses     *)
(* arrived.                                                                *)
(***************************************************************************)
C29_DataOfSelectedProject ==
  (pending = { } /\ ~IsNull(latestRequest)) =>
    /\ currentProject = Some(latestRequest[1].project)
    /\ latestRequest[1].response.status = 200 =>
          costData = latestRequest[1].response.body

\* the Chart objects that are bound to canvas c and not destroyed
LiveCharts(c) ==
  { k \in DOMAIN chartObjects :
      chartObjects[k].canvas = c /\ ~chartObjects[k].destroyed }

(***************************************************************************)
(* C30  Life cycle of the chart handles: each of the three handles is null *)
(* or refers to the one live Chart of its canvas; a Chart is constructed   *)
(* only when the handle is null, so that a canvas never has two live       *)
(* Charts; a destroyed Chart is never updated; while the empty state is on *)
(* display, that is after resetCharts, all three handles are null.         *)
(***************************************************************************)
C30_ChartHandles ==
  /\ \A c \in ChartNames :
        /\ IsNull(chartHandles[c]) => LiveCharts(c) = { }
        /\ ~IsNull(chartHandles[c]) => LiveCharts(c) = { chartHandles[c][1] }
  /\ \A k \in DOMAIN chartObjects : ~chartObjects[k].misused
  /\ ~IsNull(emptyState) => \A c \in ChartNames : IsNull(chartHandles[c])

\* charts were drawn, destroyed by an empty state, drawn anew and updated
C30_Witness ==
  /\ Len(chartObjects) = 2 * Cardinality(ChartNames)
  /\ \A c \in ChartNames :
        /\ ~IsNull(chartHandles[c])
        /\ chartHandles[c][1] > Cardinality(ChartNames)
  /\ \A k \in 1..Cardinality(ChartNames) : chartObjects[k].destroyed
  /\ requests = MaxRequests /\ pending = { }

====
